---------------------------- MODULE Spec2Model ----------------------------
(***************************************************************************)
(* Model of the safe-motion layer of daunzhi/mock_skills:                  *)
(*   - the Trajectory Safety Validator (src/util/util.py:                  *)
(*     safe_fast_move_j_to, safe_move_j),                                  *)
(*   - the Visual Offset Estimator (safe_get_tf_shift),                    *)
(*   - the Task Orchestrator (task_setup_tube_crack/main.py:               *)
(*     complete_roundtrip) with the control flow of its six subtasks,      *)
(*   - the Dual-Arm Trajectory Splicer (safe_plan_fast_move_j_to_dual_arm  *)
(*     and the dynamic-segment part of the two pick subtasks) and the      *)
(*     reversal of stored trajectory files,                                *)
(*   - the data a subtask derives from its configuration: the applied      *)
(*     shift and the command that closes the grippers,                     *)
(*   - the client operations the above call (src/client): the value each   *)
(*     returns for an answer of the Motion Service.                        *)
(*                                                                         *)
(* The Motion Service is the environment: every remote call returns one of *)
(* the values its client method can return (a response dict, None, False)  *)
(* or raises.  A Python exception that no handler catches ends the         *)
(* function abnormally: the function's pc becomes "raised".                *)
(*                                                                         *)
(* Module-level names the functions read (TRAJ_HOME, Const, np, os) are    *)
(* taken to resolve; lengths and offsets are integers (offsets in units of *)
(* one millimetre, so the smoothness threshold 0.01 is 10).                *)
(***************************************************************************)
EXTENDS Integers, Sequences, FiniteSets, TLC

VARIABLES
    \* ---- validator: one invocation of safe_fast_move_j_to / safe_move_j
    v_fn,        \* which validator runs: "safe_fast_move_j_to" | "safe_move_j"
    v_target,    \* len(target_joint_states) of safe_move_j (0: no joint target)
    v_limit,     \* traj_point_limit
    v_max,       \* max_retry_times
    v_pc,        \* "loop" | "inspect" | "execute" | "done" | "raised"
    v_attempt,   \* iterations of the for loop started so far
    v_result,    \* the local `result`: last value returned by the planner
    v_ret,       \* the value returned by the validator (NoValue until it returns)
    v_calls,     \* remote calls issued so far, in order
    \* ---- offset estimator: one invocation of safe_get_tf_shift
    e_retry,     \* retry_times
    e_limits,    \* config["runtime_shift_limits"]
    e_build,     \* build_origin_tf
    e_pc,        \* "start" | "loop" | "offset" | "done" | "raised"
    e_i,         \* iterations of the for loop started so far
    e_hist,      \* history_shifts
    e_ret,       \* the value returned by the estimator (NoValue until it returns)
    e_via,       \* the return statement taken: "none" | "accept" | "mean" | "fail"
    e_calls,     \* calls issued so far, in order (sleep, create_frame, get_frame_offset)
    \* ---- orchestrator: one run of complete_roundtrip
    p_origin,    \* "origin_crack" of the configs given to setup ("setup_crack")
                 \* and to put ("pick_crack")
    p_missing,   \* the field the crack_config dictionaries lack ("none": complete)
    p_pc,        \* "call" | "in" | "COMPLETED" | "ABORTED" | "RAISED"
    p_step,      \* index of the pipeline step to invoke next / running now
    p_invoked,   \* names of the steps invoked so far, in order
    p_results,   \* return values of the steps that returned, in order
    p_ret,       \* the value returned by complete_roundtrip (NoValue until then)
    s_pos,       \* inside a subtask: index of its next operation
    s_ops,       \* inside a subtask: the operations it has issued, in order, each
                 \* with the value it gave back
    \* ---- splicer: the dynamic-segment part of one pick maneuver
    sp_task,     \* "pick_crack_from_another_table" | "pick_front_crack"
    sp_limit,    \* the traj_point_limit the maneuver gives to safe_move_j (the
                 \* larger one in pick_crack_from_another_table)
    sp_pc,       \* "plan" | "store" | "read" | "move" | "grip" | "play" | "done" | "raised"
    sp_seg,      \* the segment under construction: 1 or 2
    sp_attempt,  \* iterations of safe_plan_fast_move_j_to_dual_arm's loop so far
    sp_result,   \* dual_arm_plan_result / result: the last plan returned
    sp_start,    \* start_joint_states of the next segment plan
    sp_target,   \* target_joint_states (NoValue until read)
    sp_files,    \* the trajectory files under TRAJ_HOME, by name
    sp_play,     \* index of the next trajectory to play back
    sp_calls,    \* remote calls and file operations issued so far, in order
    sp_ret,      \* the value returned by the maneuver (NoValue until it returns)
    sp_static,   \* traj_right_start_position: the right-arm TCP position at the
                 \* end of the static trajectory (END_POSE)
    sp_shift,    \* CRACK_BASE_SHIFT: the applied shift
    \* ---- reversal: reverse_trajectory_file applied to stored plans
    r_files,     \* trajectory files, by name
    r_calls,     \* the (source, destination) pairs reversed so far, in order
    \* ---- subtask data: the values a subtask computes from its configuration
    c_task,      \* the subtask: "push_front_crack" | "pull_out_crack" | ...
    c_config,    \* crack_config, the dictionary the subtask was given
    c_given,     \* crack_config as it was when the subtask was invoked
    c_offset,    \* the offset as safe_get_tf_shift returned it
    c_shift,     \* the list safe_get_tf_shift returned (front_crack_shift, ...)
    c_applied,   \* target_position / CRACK_BASE_SHIFT (NoValue until computed)
    c_sent,      \* keyword arguments of the closing client.gripper call
    c_pc,        \* "estimated" | "masked" | "applied" | "closed" | "idle"
    \* ---- client: one call of one operation of the client
    cl_op,       \* the operation called
    cl_response, \* how the request ended (NoValue until then)
    cl_ret,      \* the value the operation returned (NoValue until it returns)
    cl_pc        \* "call" | "answered" | "returned" | "raised" | "idle"

v_vars == <<v_fn, v_target, v_limit, v_max, v_pc, v_attempt, v_result, v_ret, v_calls>>
e_vars == <<e_retry, e_limits, e_build, e_pc, e_i, e_hist, e_ret, e_via, e_calls>>
p_vars == <<p_origin, p_missing, p_pc, p_step, p_invoked, p_results, p_ret, s_pos, s_ops>>
sp_vars == <<sp_task, sp_limit, sp_pc, sp_seg, sp_attempt, sp_result, sp_start,
             sp_target, sp_files, sp_play, sp_calls, sp_ret, sp_static, sp_shift>>
r_vars == <<r_files, r_calls>>
c_vars == <<c_task, c_config, c_given, c_offset, c_shift, c_applied, c_sent, c_pc>>
cl_vars == <<cl_op, cl_response, cl_ret, cl_pc>>

vars == <<v_fn, v_target, v_limit, v_max, v_pc, v_attempt, v_result, v_ret, v_calls,
          e_retry, e_limits, e_build, e_pc, e_i, e_hist, e_ret, e_via, e_calls,
          p_origin, p_missing, p_pc, p_step, p_invoked, p_results, p_ret, s_pos, s_ops,
          sp_task, sp_limit, sp_pc, sp_seg, sp_attempt, sp_result, sp_start,
          sp_target, sp_files, sp_play, sp_calls, sp_ret, sp_static, sp_shift,
          r_files, r_calls,
          c_task, c_config, c_given, c_offset, c_shift, c_applied, c_sent, c_pc,
          cl_op, cl_response, cl_ret, cl_pc>>

-----------------------------------------------------------------------------
\* Bounds of the model
MaxRetry == 3          \* largest max_retry_times explored
MaxLimit == 2          \* largest traj_point_limit explored
MaxEstRetry == 3       \* largest retry_times explored

\* The success sentinel of every Motion Service response, and one failure code
CodeSuccess == 200
CodeFailure == 500

-----------------------------------------------------------------------------
\* Python values
NoValue   == [kind |-> "unset"]
PyNone    == [kind |-> "None"]
PyFalse   == [kind |-> "False"]
PyTrue    == [kind |-> "True"]

\* Waypoint counts a planned trajectory file can hold: up to one above every limit
PointCounts == 0..(MaxLimit + 1)

\* A response dict of a planning call.  traj_id is filled in by the call
\* (a fresh id per plan); aslist: the service returned traj_id as a list;
\* readable: the file TRAJ_HOME/traj_id exists and holds a "points" list.
PlanDicts ==
    [kind : {"dict"}, code : {CodeSuccess}, npoints : PointCounts,
     readable : {TRUE}, aslist : BOOLEAN]
    \cup [kind : {"dict"}, code : {CodeSuccess}, npoints : {0},
          readable : {FALSE}, aslist : {FALSE}]
    \cup [kind : {"dict"}, code : {CodeFailure}, npoints : {0},
          readable : {FALSE}, aslist : {FALSE}]

\* What client.move_j can return: the response dict, or False (argument
\* validation, HTTP status != 200, transport exception).  Never None.
move_j == PlanDicts \cup {PyFalse}

\* What client.fast_move_j_to can return: False (bad arm name, status query
\* failed, bad offset command), or whatever move_j_to returns: the response
\* dict, None (HTTP status != 200, transport exception) or False.
fast_move_j_to == PlanDicts \cup {PyNone, PyFalse}

\* What client.run_traj can do: return the response dict (code 200 or not),
\* return None (HTTP status != 200), or raise (its RequestException handler
\* returns the unbound local `result`).
RunDict(c) == [kind |-> "dict", code |-> c]
run_traj == {RunDict(CodeSuccess), RunDict(CodeFailure), PyNone, [kind |-> "raise"]}

\* `x is None or x["code"] != 200` for a value that is None or a dict
IsFailure(x) == x.kind = "None" \/ (x.kind = "dict" /\ x.code # CodeSuccess)

\* The planner the validator calls
Planner(fn) == IF fn = "safe_move_j" THEN move_j ELSE fast_move_j_to

\* Lengths target_joint_states can have: [body1, body2, left1-7, right1-7] is 16
JointLengths == {1, 15, 16, 17}

\* The lengths of target_joint_states[:2], [2:9] and [9:] for a list of n elements
BodyPositions(n) == IF n < 2 THEN n ELSE 2
LeftPositions(n) == IF n <= 2 THEN 0 ELSE IF n < 9 THEN n - 2 ELSE 7
RightPositions(n) == IF n <= 9 THEN 0 ELSE n - 9

\* The one length test client.move_j makes before it builds the request:
\* `if len(body_pos) != 2: return False`
MoveJSends(body, left, right) == body = 2

\* What the planner answers for a joint target of n elements
PlannerResults(fn, n) ==
    IF fn = "safe_move_j"
          /\ ~MoveJSends(BodyPositions(n), LeftPositions(n), RightPositions(n))
    THEN {PyFalse}
    ELSE Planner(fn)

\* Mutant: the planning call left at the client's default execute=True
PlanCall_Execute(id, r) == [op |-> "plan", id |-> id, execute |-> TRUE, resp |-> r]

\* The planning call of a validator: `execute=False`
PlanCall(id, r) == [op |-> "plan", id |-> id, execute |-> FALSE, resp |-> r]
RunCall(id, r)  == [op |-> "run_traj", id |-> id, resp |-> r]

-----------------------------------------------------------------------------
\* The validator: safe_fast_move_j_to and safe_move_j

\* Mutants of the length test: off by one in either direction
OverLimit_Lenient(traj_length, traj_point_limit) == traj_length > traj_point_limit + 1
OverLimit_Strict(traj_length, traj_point_limit) == traj_length >= traj_point_limit

\* `if traj_length > traj_point_limit: continue`
OverLimit(traj_length, traj_point_limit) == traj_length > traj_point_limit

\* json.load of TRAJ_HOME/traj_id succeeds.  safe_move_j first replaces a list
\* traj_id by its first element; safe_fast_move_j_to passes it to os.path.join
\* as it is, which raises TypeError for a list.
CanLoad(fn, r) == r.readable /\ (r.aslist => fn = "safe_move_j")

\* Where the validator fn goes with a plan r of code 200 under a limit: the
\* file cannot be loaded (exception), the plan is too long (`continue`), or
\* the plan is executed
AfterInspect(fn, r, traj_point_limit) ==
    IF ~CanLoad(fn, r) THEN "raised"
    ELSE IF OverLimit(r.npoints, traj_point_limit) THEN "loop"
    ELSE "execute"

InitValidator ==
    /\ v_fn \in {"safe_fast_move_j_to", "safe_move_j"}
    /\ v_target \in (IF v_fn = "safe_move_j" THEN JointLengths ELSE {0})
    /\ v_limit \in 0..MaxLimit
    /\ v_max \in 0..MaxRetry
    /\ v_pc = "loop"
    /\ v_attempt = 0
    /\ v_result = NoValue
    /\ v_ret = NoValue
    /\ v_calls = <<>>

\* The validator at rest, in the specifications of the other components
IdleValidator ==
    /\ v_fn = "safe_move_j"
    /\ v_target = 0
    /\ v_limit = 0
    /\ v_max = 0
    /\ v_pc = "idle"
    /\ v_attempt = 0
    /\ v_result = NoValue
    /\ v_ret = NoValue
    /\ v_calls = <<>>

\* One iteration's planning call with execute=False and the test of its result
ValidatorPlan ==
    /\ v_pc = "loop"
    /\ v_attempt < v_max
    /\ \E r \in PlannerResults(v_fn, v_target) :
        /\ v_attempt' = v_attempt + 1
        /\ v_result' = r
        /\ v_calls' = Append(v_calls, PlanCall(v_attempt + 1, r))
        /\ v_pc' = IF r.kind = "False" THEN "raised"    \* False["code"]: TypeError
                   ELSE IF IsFailure(r) THEN "loop"     \* continue
                   ELSE "inspect"
    /\ UNCHANGED <<v_fn, v_target, v_limit, v_max, v_ret>>
    /\ UNCHANGED <<e_vars, p_vars, sp_vars, r_vars, c_vars, cl_vars>>

\* Load the planned trajectory file and compare its length with the limit
ValidatorInspect ==
    /\ v_pc = "inspect"
    /\ v_pc' = AfterInspect(v_fn, v_result, v_limit)
    /\ UNCHANGED <<v_fn, v_target, v_limit, v_max, v_attempt, v_result, v_ret, v_calls>>
    /\ UNCHANGED <<e_vars, p_vars, sp_vars, r_vars, c_vars, cl_vars>>

\* Mutant: the traj_id of the plan of the attempt before
ResponseTrajId_Previous(id, r) == IF r.aslist THEN <<id - 1>> ELSE id - 1

\* `traj_id = result["traj_id"]` of the plan with the given id: the id, or a
\* list that holds it
ResponseTrajId(id, r) == IF r.aslist THEN <<id>> ELSE id

\* `if isinstance(traj_id, list): traj_id = traj_id[0]` (safe_move_j only)
FirstIfList(r, traj_id) == IF r.aslist THEN traj_id[1] ELSE traj_id

\* The traj_id given to client.run_traj
ExecutedTrajId ==
    LET traj_id == ResponseTrajId(v_attempt, v_result) IN
    IF v_fn = "safe_move_j" THEN FirstIfList(v_result, traj_id) ELSE traj_id

\* Mutant: `success = True` forgotten, so an executed plan is reported as None
ValidatorExecute_NoSuccess ==
    /\ v_pc = "execute"
    /\ \E ret \in run_traj :
        /\ v_calls' = Append(v_calls, RunCall(ExecutedTrajId, ret))
        /\ IF ret.kind = "raise"
             THEN v_pc' = "raised" /\ v_ret' = v_ret
             ELSE /\ v_pc' = "done"
                  /\ v_ret' = IF IsFailure(ret) THEN PyFalse ELSE PyNone
    /\ UNCHANGED <<v_fn, v_target, v_limit, v_max, v_attempt, v_result>>
    /\ UNCHANGED <<e_vars, p_vars, sp_vars, r_vars, c_vars, cl_vars>>

\* Mutant: a failed execution is retried (`continue`) instead of returning False
ValidatorExecute_Retry ==
    /\ v_pc = "execute"
    /\ \E ret \in run_traj :
        /\ v_calls' = Append(v_calls, RunCall(ExecutedTrajId, ret))
        /\ IF ret.kind = "raise"
             THEN v_pc' = "raised" /\ v_ret' = v_ret
             ELSE IF IsFailure(ret)
             THEN v_pc' = "loop" /\ v_ret' = v_ret
             ELSE v_pc' = "done" /\ v_ret' = v_result
    /\ UNCHANGED <<v_fn, v_target, v_limit, v_max, v_attempt, v_result>>
    /\ UNCHANGED <<e_vars, p_vars, sp_vars, r_vars, c_vars, cl_vars>>

\* run_traj(traj_id) of the accepted plan, then return
ValidatorExecute ==
    /\ v_pc = "execute"
    /\ \E ret \in run_traj :
        /\ v_calls' = Append(v_calls, RunCall(ExecutedTrajId, ret))
        /\ IF ret.kind = "raise"
             THEN v_pc' = "raised" /\ v_ret' = v_ret
             ELSE /\ v_pc' = "done"
                  /\ v_ret' = IF IsFailure(ret) THEN PyFalse ELSE v_result
    /\ UNCHANGED <<v_fn, v_target, v_limit, v_max, v_attempt, v_result>>
    /\ UNCHANGED <<e_vars, p_vars, sp_vars, r_vars, c_vars, cl_vars>>

\* The for loop ran out of iterations: success is still False, return None
ValidatorExhausted ==
    /\ v_pc = "loop"
    /\ v_attempt >= v_max
    /\ v_pc' = "done"
    /\ v_ret' = PyNone
    /\ UNCHANGED <<v_fn, v_target, v_limit, v_max, v_attempt, v_result, v_calls>>
    /\ UNCHANGED <<e_vars, p_vars, sp_vars, r_vars, c_vars, cl_vars>>

NextValidator ==
    \/ ValidatorPlan
    \/ ValidatorInspect
    \/ ValidatorExecute
    \/ ValidatorExhausted


-----------------------------------------------------------------------------
\* The offset estimator: safe_get_tf_shift

\* Offsets are triples of integers, in millimetres
Axes == 1..3
Abs(x) == IF x < 0 THEN -x ELSE x

\* The `sum(std) < 0.01` threshold, in millimetres
SmoothThreshold == 10

\* Offsets the frame-offset call can report.  With the limits below they cover:
\* within tolerance, exactly at the limit, just over on one axis, the example
\* offset of the specification, and readings 7, 8 and 9 mm apart on every axis.
OffsetSamples ==
    { <<0, 0, 0>>, <<5, -5, 5>>, <<6, 0, 0>>, <<0, -6, 0>>, <<2, -1, 30>>,
      <<6, 6, 6>>, <<13, 13, 13>>, <<14, 14, 14>>, <<15, 15, 15>> }

\* Values of config["runtime_shift_limits"]
ShiftLimits == { <<5, 5, 5>>, <<5, 5, 40>> }

\* What client.get_frame_offset can return: the response dict with its
\* position_offset (code 200), or None (any failure)
OffsetDict(o) == [kind |-> "dict", position_offset |-> o]
get_frame_offset == {OffsetDict(o) : o \in OffsetSamples} \cup {PyNone}

\* A returned offset list: the components are num[i] / den
PyList(num, den) == [kind |-> "list", num |-> num, den |-> den]

SleepCall       == [op |-> "sleep"]
FrameCall(f, b) == [op |-> "create_frame", frame |-> f, ok |-> b]
OffsetCall(r)   == [op |-> "get_frame_offset", target |-> "tf_name_runtime",
                    ref |-> "tf_name", resp |-> r]

\* Mutant of the tolerance test: only the first axis checked
OverShiftLimit_FirstAxis(runtime_shift, limits) == Abs(runtime_shift[1]) > limits[1]

\* The per-axis loop that sets over_limit
OverShiftLimit(runtime_shift, limits) ==
    \E i \in Axes : Abs(runtime_shift[i]) > limits[i]

RECURSIVE SumAxis(_, _, _)
SumAxis(h, a, k) == IF k = 0 THEN 0 ELSE h[k][a] + SumAxis(h, a, k - 1)
RECURSIVE SumSqAxis(_, _, _)
SumSqAxis(h, a, k) == IF k = 0 THEN 0 ELSE h[k][a] * h[k][a] + SumSqAxis(h, a, k - 1)

\* history_shifts.mean(axis=0), as the per-axis sums over Len(h)
MeanShifts(h) == PyList([a \in Axes |-> SumAxis(h, a, Len(h))], Len(h))

\* n^2 times the population variance of axis a: n * sum(x^2) - sum(x)^2
ScaledVar(h, a) ==
    Len(h) * SumSqAxis(h, a, Len(h)) - SumAxis(h, a, Len(h)) * SumAxis(h, a, Len(h))

\* floor(sqrt(x)) by bisection: lo^2 <= x < hi^2 (for x < 46340^2, so that no
\* square leaves the 32-bit integers)
RECURSIVE ISqrtIn(_, _, _)
ISqrtIn(x, lo, hi) ==
    IF hi - lo <= 1 THEN lo
    ELSE LET mid == (lo + hi) \div 2
         IN IF mid * mid <= x THEN ISqrtIn(x, mid, hi) ELSE ISqrtIn(x, lo, mid)
ISqrt(x) == ISqrtIn(x, 0, IF x < 46340 THEN x + 1 ELSE 46340)

\* e * sqrt(p) < n for integers e > 0, p >= 0, n, decided exactly
ScaledSqrtLess(e, p, n) ==
    LET r == ISqrt(p) IN
    IF n <= 0 THEN FALSE
    ELSE IF e * (r + 1) <= n THEN TRUE
    ELSE IF e * r >= n THEN FALSE
    ELSE LET t == n - e * r
         IN e * e * (p - r * r) < t * (2 * e * r + t)

\* sqrt(a) + sqrt(b) + sqrt(c) < k for integers a, b, c >= 0, decided exactly
\* by squaring three times
SumSqrtLess(a, b, c, k) ==
    /\ k > 0
    /\ a + b + c < k * k
    /\ LET m == k * k + c - a - b
           n == m * m - 4 * a * b - 4 * k * k * c
       IN /\ m > 0
          /\ n > 0
          /\ ScaledSqrtLess(8 * k, a * b * c, n)

\* Mutants of the smoothness test: the threshold applied to each axis on its
\* own (`all(std < 0.01)`), to the smallest axis (`min(std) < 0.01`), and to
\* the summed variances (`sum(var) < 0.01`)
SmallStd_PerAxis(h) ==
    \A a \in Axes : ScaledVar(h, a) < (Len(h) * SmoothThreshold) * (Len(h) * SmoothThreshold)
SmallStd_Min(h) ==
    \E a \in Axes : ScaledVar(h, a) < (Len(h) * SmoothThreshold) * (Len(h) * SmoothThreshold)
SmallStd_Variance(h) ==
    ScaledVar(h, 1) + ScaledVar(h, 2) + ScaledVar(h, 3) < Len(h) * Len(h) * SmoothThreshold

\* `sum(std) < 0.01` for a non-empty history: std of axis a is
\* sqrt(ScaledVar(h, a)) / n
SmallStd(h) ==
    SumSqrtLess(ScaledVar(h, 1), ScaledVar(h, 2), ScaledVar(h, 3),
                Len(h) * SmoothThreshold)

InitEstimator ==
    /\ e_retry \in 0..MaxEstRetry
    /\ e_limits \in ShiftLimits
    /\ e_build \in BOOLEAN
    /\ e_pc = "start"
    /\ e_i = 0
    /\ e_hist = <<>>
    /\ e_ret = NoValue
    /\ e_via = "none"
    /\ e_calls = <<>>

\* The estimator at rest, in the specifications of the other components
IdleEstimator ==
    /\ e_retry = 0
    /\ e_limits = <<0, 0, 0>>
    /\ e_build = FALSE
    /\ e_pc = "idle"
    /\ e_i = 0
    /\ e_hist = <<>>
    /\ e_ret = NoValue
    /\ e_via = "none"
    /\ e_calls = <<>>

\* Mutant: the reference frame is rebuilt whatever build_origin_tf says
EstimatorStart_Always ==
    /\ e_pc = "start"
    /\ e_pc' = "loop"
    /\ \E ok \in BOOLEAN :
          e_calls' = e_calls \o <<SleepCall, FrameCall("tf_name", ok)>>
    /\ UNCHANGED <<e_retry, e_limits, e_build, e_i, e_hist, e_ret, e_via>>
    /\ UNCHANGED <<v_vars, p_vars, sp_vars, r_vars, c_vars, cl_vars>>

\* time.sleep(wait_before_start), then the reference frame if build_origin_tf
\* (the result of that create_frame is not looked at)
EstimatorStart ==
    /\ e_pc = "start"
    /\ e_pc' = "loop"
    /\ IF e_build
         THEN \E ok \in BOOLEAN :
                 e_calls' = e_calls \o <<SleepCall, FrameCall("tf_name", ok)>>
         ELSE e_calls' = Append(e_calls, SleepCall)
    /\ UNCHANGED <<e_retry, e_limits, e_build, e_i, e_hist, e_ret, e_via>>
    /\ UNCHANGED <<v_vars, p_vars, sp_vars, r_vars, c_vars, cl_vars>>

\* One iteration's create_frame of the runtime frame
EstimatorCreateFrame ==
    /\ e_pc = "loop"
    /\ e_i < e_retry
    /\ \E success \in BOOLEAN :
        /\ e_calls' = Append(e_calls, FrameCall("tf_name_runtime", success))
        /\ e_pc' = IF success THEN "offset" ELSE "loop"     \* continue
    /\ e_i' = e_i + 1
    /\ UNCHANGED <<e_retry, e_limits, e_build, e_hist, e_ret, e_via>>
    /\ UNCHANGED <<v_vars, p_vars, sp_vars, r_vars, c_vars, cl_vars>>

\* Mutant: the per-axis loop `for i in range(3)` clobbers the counter of the
\* attempt loop, as it would in a `while i < retry_times` loop: after a sample
\* over the limit the counter stands at 3
EstimatorGetOffset_SharedIndex ==
    /\ e_pc = "offset"
    /\ \E result \in get_frame_offset :
        /\ e_calls' = Append(e_calls, OffsetCall(result))
        /\ IF result.kind = "None"
             THEN /\ e_pc' = "raised"
                  /\ UNCHANGED <<e_hist, e_ret, e_via, e_i>>
             ELSE LET runtime_shift == result.position_offset IN
                  /\ e_hist' = Append(e_hist, runtime_shift)
                  /\ IF OverShiftLimit(runtime_shift, e_limits)
                       THEN e_pc' = "loop" /\ e_i' = 3 /\ UNCHANGED <<e_ret, e_via>>
                       ELSE /\ e_pc' = "done"
                            /\ e_ret' = PyList(runtime_shift, 1)
                            /\ e_via' = "accept"
                            /\ UNCHANGED e_i
    /\ UNCHANGED <<e_retry, e_limits, e_build>>
    /\ UNCHANGED <<v_vars, p_vars, sp_vars, r_vars, c_vars, cl_vars>>

\* get_frame_offset, the history append and the tolerance test
EstimatorGetOffset ==
    /\ e_pc = "offset"
    /\ \E result \in get_frame_offset :
        /\ e_calls' = Append(e_calls, OffsetCall(result))
        /\ IF result.kind = "None"
             THEN \* None["position_offset"]: TypeError
                  /\ e_pc' = "raised"
                  /\ UNCHANGED <<e_hist, e_ret, e_via>>
             ELSE LET runtime_shift == result.position_offset IN
                  /\ e_hist' = Append(e_hist, runtime_shift)
                  /\ IF OverShiftLimit(runtime_shift, e_limits)
                       THEN e_pc' = "loop" /\ UNCHANGED <<e_ret, e_via>>
                       ELSE /\ e_pc' = "done"
                            /\ e_ret' = PyList(runtime_shift, 1)
                            /\ e_via' = "accept"
    /\ UNCHANGED <<e_retry, e_limits, e_build, e_i>>
    /\ UNCHANGED <<v_vars, p_vars, sp_vars, r_vars, c_vars, cl_vars>>

\* After the loop: mean and std of the history.  With an empty history std is
\* a 0-d nan and sum(std) raises TypeError (not iterable).
EstimatorFallback ==
    /\ e_pc = "loop"
    /\ e_i >= e_retry
    /\ IF e_hist = <<>>
         THEN e_pc' = "raised" /\ UNCHANGED <<e_ret, e_via>>
         ELSE /\ e_pc' = "done"
              /\ IF SmallStd(e_hist)
                   THEN e_ret' = MeanShifts(e_hist) /\ e_via' = "mean"
                   ELSE e_ret' = PyNone /\ e_via' = "fail"
    /\ UNCHANGED <<e_retry, e_limits, e_build, e_i, e_hist, e_calls>>
    /\ UNCHANGED <<v_vars, p_vars, sp_vars, r_vars, c_vars, cl_vars>>

NextEstimator ==
    \/ EstimatorStart
    \/ EstimatorCreateFrame
    \/ EstimatorGetOffset
    \/ EstimatorFallback

-----------------------------------------------------------------------------
\* The subtasks: the operations each one issues, in the order of its source

Op(kind, arg) == [op |-> kind, arg |-> arg]

\* `if crack_config.get("origin_crack", False)` picks the trajectory variant
Variant(origin, stem) ==
    IF origin THEN stem \o "_origin_crack.json" ELSE stem \o ".json"

pick_crack_from_another_table ==
    << Op("run_traj", "demo2/pick_crack_remote/1_to_observe_pose.json"),
       Op("safe_get_tf_shift", "crack_config"),
       Op("gripper", "grasp_gripper_config"),
       Op("run_traj", "demo2/pick_crack_remote/2_to_pick_prepare.json"),
       Op("safe_plan_fast_move_j_to_dual_arm", "tmp_dual_arm_traj_1.json"),
       Op("open", "tmp_dual_arm_traj_1_reversed.json"),
       Op("safe_plan_fast_move_j_to_dual_arm", "tmp_dual_arm_traj_2.json"),
       Op("open", "tmp_dual_arm_traj_2_reversed.json"),
       Op("safe_move_j", "tmp_dual_arm_pick_traj.json"),
       Op("gripper", "grasp_gripper_config closed"),
       Op("run_traj", "tmp_dual_arm_traj_2_reversed.json"),
       Op("run_traj", "tmp_dual_arm_traj_1_reversed.json"),
       Op("run_traj", "demo2/pick_crack_remote/3_dual_arm_move_to_body.json") >>

setup_front_crack(origin) ==
    << Op("run_traj", "demo2/setup_front_crack/0_raise_up.json"),
       Op("run_traj", Variant(origin, "demo2/setup_front_crack/1_dual_arm_to_observe_base")),
       Op("safe_get_tf_shift", "column_machine_config"),
       Op("run_traj", Variant(origin, "demo2/setup_front_crack/3_dual_arm_to_above_base")),
       Op("safe_plan_fast_move_j_to_dual_arm", "tmp_dual_arm_setup_front_crack_traj_1.json"),
       Op("open", "tmp_dual_arm_setup_front_crack_traj_1.json"),
       Op("safe_plan_fast_move_j_to_dual_arm", "tmp_dual_arm_setup_front_crack_traj_2.json"),
       Op("run_traj", "tmp_dual_arm_setup_front_crack_traj_1.json"),
       Op("run_traj", "tmp_dual_arm_setup_front_crack_traj_2.json"),
       Op("gripper", "release_gripper_config"),
       Op("move_j_to_traj_start", "demo2/setup_front_crack/4_to_pick_front_ready_2_reversed.json"),
       Op("gripper", "open 0.03"),
       Op("run_traj", "demo2/setup_front_crack/4_to_pick_front_ready_2_reversed.json"),
       Op("run_traj", "demo2/setup_front_crack/5_to_pick_front_ready_reversed.json") >>

push_front_crack ==
    << Op("safe_get_tf_shift", "crack_config"),
       Op("run_traj", "demo2/push_front_crack/1_to_observe_front_tube_reversed.json"),
       Op("run_traj", "demo2/push_front_crack/2_to_pick_pose_reversed.json"),
       Op("run_traj", "demo2/push_front_crack/3_to_bow_ready.json"),
       Op("gripper", "open 0.08"),
       Op("run_traj", "demo2/push_front_crack/4_to_bow_down.json"),
       Op("safe_fast_move_j_to", "target_position"),
       Op("gripper", "grasp_gripper_config closed"),
       Op("safe_fast_move_j_to", "z+0.003"),
       Op("force_comp", "push"),
       Op("contact", "push"),
       Op("gripper", "open 0.08"),
       Op("move_j_to_traj_start", "demo2/push_front_crack/5_to_observe_tube_crack_reversed.json"),
       Op("run_traj", "demo2/push_front_crack/5_to_observe_tube_crack_reversed.json"),
       Op("run_traj", "demo2/push_front_crack/6_to_bow_down_reversed.json"),
       Op("run_traj", "demo2/push_front_crack/7_to_bow_ready_reversed.json") >>

pull_out_crack ==
    << Op("gripper", "open 0.08"),
       Op("safe_get_tf_shift", "column_machine_config"),
       Op("run_traj", "demo2/pull_out_tube_crack/to_bow_ready.json"),
       Op("run_traj", "demo2/pull_out_tube_crack/to_bow_down.json"),
       Op("run_traj", "demo2/pull_out_tube_crack/to_observe_tube_crack_2.json"),
       Op("gripper", "grasp_gripper_config"),
       Op("safe_get_tf_shift", "crack_config"),
       Op("safe_fast_move_j_to", "target_position"),
       Op("gripper", "grasp_gripper_config closed"),
       Op("safe_fast_move_j_to", "z+0.003"),
       Op("pull_distance_check", "abs(pull_distance_shift) > 0.1"),
       Op("force_comp", "pull"),
       Op("gripper", "open 0.06"),
       Op("safe_fast_move_j_to", "x-0.05"),
       Op("move_j_to_traj_start", "demo2/pull_out_tube_crack/to_bow_down_reversed.json"),
       Op("run_traj", "demo2/pull_out_tube_crack/to_bow_down_reversed.json"),
       Op("run_traj", "demo2/pull_out_tube_crack/to_bow_ready_reversed.json") >>

pick_front_crack ==
    << Op("run_traj", "demo2/pick_front_crack/1_to_pick_pose.json"),
       Op("run_traj", "demo2/pick_front_crack/2_to_observe_front_tube.json"),
       Op("safe_get_tf_shift", "crack_config"),
       Op("run_traj", "demo2/pick_front_crack/3_to_pick_front_ready.json"),
       Op("run_traj", "demo2/pick_front_crack/4_to_pick_front_ready_2.json"),
       Op("gripper", "grasp_gripper_config"),
       Op("safe_plan_fast_move_j_to_dual_arm", "tmp_dual_arm_traj_1.json"),
       Op("open", "tmp_dual_arm_traj_1_reversed.json"),
       Op("safe_plan_fast_move_j_to_dual_arm", "tmp_dual_arm_traj_2.json"),
       Op("open", "tmp_dual_arm_traj_2_reversed.json"),
       Op("safe_move_j", "tmp_dual_arm_pick_traj.json"),
       Op("gripper", "grasp_gripper_config closed"),
       Op("run_traj", "tmp_dual_arm_traj_2_reversed.json"),
       Op("run_traj", "tmp_dual_arm_traj_1_reversed.json"),
       Op("run_traj", "demo2/pick_front_crack/dual_arm_pick_to_body.json") >>

\* Mutant: the rack is released before it is put down
put_crack_on_another_table_EarlyRelease(origin) ==
    << Op("run_traj", "demo2/put_back_crack/1_raise_up.json"),
       Op("run_traj", "demo2/put_back_crack/2_move_forward.json"),
       Op("gripper", "release_remote_gripper_config"),
       Op("run_traj", Variant(origin, "demo2/put_back_crack/3_put_down")),
       Op("run_traj", Variant(origin, "demo2/put_back_crack/4_release_hands")),
       Op("run_traj", "demo2/put_back_crack/5_widthdraw_hands.json") >>

put_crack_on_another_table(origin) ==
    << Op("run_traj", "demo2/put_back_crack/1_raise_up.json"),
       Op("run_traj", "demo2/put_back_crack/2_move_forward.json"),
       Op("run_traj", Variant(origin, "demo2/put_back_crack/3_put_down")),
       Op("gripper", "release_remote_gripper_config"),
       Op("run_traj", Variant(origin, "demo2/put_back_crack/4_release_hands")),
       Op("run_traj", "demo2/put_back_crack/5_widthdraw_hands.json") >>

\* The x offsets (millimetres) safe_get_tf_shift can have given pull_out_crack
\* for the column machine (base_shift[0]) and for the rack (crack2_shift[0])
PullOffsets == {0, 100, 101}

\* The largest |pull_distance_shift| the pull is made with: 0.1 m
PullShiftLimit == 100

\* `pull_distance_shift = - base_shift[0] + crack2_shift[0]`
PullDistanceShift(base_x, crack_x) == (0 - base_x) + crack_x

\* Mutant: the sign of the shift is not dropped
PullTooFar_Signed(pull_distance_shift) == pull_distance_shift > PullShiftLimit

\* `abs(pull_distance_shift) > 0.1`
PullTooFar(pull_distance_shift) ==
    (IF pull_distance_shift < 0 THEN 0 - pull_distance_shift ELSE pull_distance_shift)
        > PullShiftLimit

\* The test of the pull distance for two offsets: its value, with the offsets
PullCheck(base_x, crack_x) ==
    [kind |-> IF PullTooFar(PullDistanceShift(base_x, crack_x)) THEN "True" ELSE "False",
     base_x |-> base_x, crack_x |-> crack_x]

\* The value an operation gives back to the subtask ([kind |-> "raise"]: it
\* raises).
\*   run_traj: the response dict, None, or an exception
\*   gripper: overall_success of the response, False on every failure
\*   contact, move_j_to_traj_start: True once the service answered, else False
\*   force_comp: the response dict (code 200 or not), False on every failure
\*   safe_get_tf_shift: a list, None, or an exception
\*   safe_fast_move_j_to, safe_move_j: the accepted plan, False after a failed
\*     run_traj, None on exhaustion, or an exception
\*   safe_plan_fast_move_j_to_dual_arm: the last response dict, or an exception
\*   open: the parsed trajectory file, or an exception
\*   pull_distance_check: the value of abs(pull_distance_shift) > 0.1
OpResults(kind) ==
    CASE kind = "run_traj" -> run_traj
      [] kind \in {"gripper", "contact", "move_j_to_traj_start"} -> {PyTrue, PyFalse}
      [] kind = "force_comp" -> {RunDict(CodeSuccess), RunDict(CodeFailure), PyFalse}
      [] kind = "safe_get_tf_shift" -> {[kind |-> "list"], PyNone, [kind |-> "raise"]}
      [] kind \in {"safe_fast_move_j_to", "safe_move_j"} ->
           {RunDict(CodeSuccess), PyFalse, PyNone, [kind |-> "raise"]}
      [] kind = "safe_plan_fast_move_j_to_dual_arm" ->
           {RunDict(CodeSuccess), RunDict(CodeFailure), [kind |-> "raise"]}
      [] kind = "open" -> {[kind |-> "file"], [kind |-> "raise"]}
      [] kind = "pull_distance_check" ->
           {PullCheck(b, c) : b \in PullOffsets, c \in PullOffsets}

\* What happens to the subtask after one operation, by the value it got:
\* "next" (go on), "False" (return False) or "raise" (uncaught exception).
\*   run_traj: `if ret is None or ret["code"] != 200: return False`
\*   gripper, force_comp, contact, move_j_to_traj_start: result not looked at
\*   safe_get_tf_shift: `if shift is None: return False`
\*   safe_fast_move_j_to: `if result is None or result["code"] != 200`, which
\*     raises TypeError on the False the validator returns after a failed run
\*   safe_move_j, safe_plan_fast_move_j_to_dual_arm:
\*     `if isinstance(result, dict) and result["code"] == 200 ... else return False`
\*   pull_distance_check: `if abs(pull_distance_shift) > 0.1: return False`
OpOutcome(kind, res) ==
    IF res.kind = "raise" THEN "raise"
    ELSE CASE kind = "run_traj" -> IF IsFailure(res) THEN "False" ELSE "next"
           [] kind \in {"gripper", "force_comp", "contact", "move_j_to_traj_start"} ->
                "next"
           [] kind = "safe_get_tf_shift" -> IF res.kind = "None" THEN "False" ELSE "next"
           [] kind = "safe_fast_move_j_to" ->
                IF res.kind = "False" THEN "raise"
                ELSE IF IsFailure(res) THEN "False" ELSE "next"
           [] kind \in {"safe_move_j", "safe_plan_fast_move_j_to_dual_arm"} ->
                IF res.kind = "dict" /\ res.code = CodeSuccess THEN "next" ELSE "False"
           [] kind = "open" -> "next"
           [] kind = "pull_distance_check" -> IF res.kind = "True" THEN "False" ELSE "next"

\* Fields a crack_config can lack
MissingFields ==
    {"none", "base_shift", "grasp_gripper_config", "runtime_shift_limits", "tf_name"}

\* The fields of crack_config a subtask reads between the operation before o
\* and the request of o (the arguments of o, or a statement that precedes it)
ReadsBefore(o) ==
    CASE o.op = "gripper" /\ o.arg \in {"grasp_gripper_config", "grasp_gripper_config closed"}
           -> {"grasp_gripper_config"}
      [] o.op = "gripper" /\ o.arg \in {"release_gripper_config", "release_remote_gripper_config"}
           -> {o.arg}
      [] o.op = "safe_get_tf_shift" /\ o.arg = "crack_config"
           -> {"tf_name", "marker_id", "expected_count", "arms"}
      [] o.op = "safe_fast_move_j_to" /\ o.arg = "target_position"
           -> {"base_shift"}
      [] o.op = "safe_plan_fast_move_j_to_dual_arm"
            /\ o.arg \in {"tmp_dual_arm_traj_1.json",
                          "tmp_dual_arm_setup_front_crack_traj_1.json"}
           -> {"base_shift"}
      [] OTHER -> {}

\* The fields of crack_config read inside o after o has issued remote calls:
\* safe_get_tf_shift reads config["runtime_shift_limits"] after create_frame
\* and get_frame_offset
ReadsInside(o) ==
    IF o.op = "safe_get_tf_shift" /\ o.arg = "crack_config"
    THEN {"runtime_shift_limits"} ELSE {}

\* The values o can give back when crack_config lacks the field `missing`:
\* without the limits safe_get_tf_shift raises KeyError at its first offset, or
\* returns None when no frame could be built
ResultsOf(o, missing) ==
    IF missing \in ReadsInside(o) THEN {PyNone, [kind |-> "raise"]}
    ELSE OpResults(o.op)

-----------------------------------------------------------------------------
\* The orchestrator: complete_roundtrip

\* Mutant: setup and push swapped
Pipeline_Swapped ==
    << "pick_crack_from_another_table", "agv_move LM8", "push_front_crack",
       "setup_front_crack", "pull_out_crack", "pick_front_crack", "agv_move LM4",
       "put_crack_on_another_table" >>

\* The calls of complete_roundtrip, in the order of its source
Pipeline ==
    << "pick_crack_from_another_table", "agv_move LM8", "setup_front_crack",
       "push_front_crack", "pull_out_crack", "pick_front_crack", "agv_move LM4",
       "put_crack_on_another_table" >>

IsRelocation(name) == name \in {"agv_move LM8", "agv_move LM4"}

Script(name, origin) ==
    CASE name = "pick_crack_from_another_table" -> pick_crack_from_another_table
      [] name = "setup_front_crack" -> setup_front_crack(origin["setup_crack"])
      [] name = "push_front_crack" -> push_front_crack
      [] name = "pull_out_crack" -> pull_out_crack
      [] name = "pick_front_crack" -> pick_front_crack
      [] name = "put_crack_on_another_table" -> put_crack_on_another_table(origin["pick_crack"])

\* agv_move(station, wait=True): the relocation's own pass/fail signal.  The
\* sources hold only a placeholder of this function (util.py: `return True`),
\* so its outcomes are the ones the specification of the relocation step
\* describes.
agv_move == {PyTrue, PyFalse}

\* Mutant: the result of a subtask is not looked at
AfterSubtask_Ignore(ret) == "call"

\* `if not subtask(...): return False`: where the orchestrator goes next
AfterSubtask(ret) == IF ret = PyTrue THEN "call" ELSE "ABORTED"

InitPipeline ==
    /\ p_origin \in [{"setup_crack", "pick_crack"} -> BOOLEAN]
    /\ p_missing \in MissingFields
    /\ p_pc = "call"
    /\ p_step = 1
    /\ p_invoked = <<>>
    /\ p_results = <<>>
    /\ p_ret = NoValue
    /\ s_pos = 0
    /\ s_ops = <<>>

\* The orchestrator at rest, in the specifications of the other components
IdlePipeline ==
    /\ p_origin = [c \in {"setup_crack", "pick_crack"} |-> FALSE]
    /\ p_missing = "none"
    /\ p_pc = "idle"
    /\ p_step = 0
    /\ p_invoked = <<>>
    /\ p_results = <<>>
    /\ p_ret = NoValue
    /\ s_pos = 0
    /\ s_ops = <<>>

\* agv_move(...): its result is not looked at
PipelineRelocate ==
    /\ p_pc = "call"
    /\ p_step <= Len(Pipeline)
    /\ IsRelocation(Pipeline[p_step])
    /\ p_invoked' = Append(p_invoked, Pipeline[p_step])
    /\ \E signal \in agv_move : p_results' = Append(p_results, signal)
    /\ p_step' = p_step + 1
    /\ UNCHANGED <<p_origin, p_missing, p_pc, p_ret, s_pos, s_ops>>
    /\ UNCHANGED <<v_vars, e_vars, sp_vars, r_vars, c_vars, cl_vars>>

\* Call of the next subtask
SubtaskInvoke ==
    /\ p_pc = "call"
    /\ p_step <= Len(Pipeline)
    /\ ~IsRelocation(Pipeline[p_step])
    /\ p_invoked' = Append(p_invoked, Pipeline[p_step])
    /\ p_pc' = "in"
    /\ s_pos' = 1
    /\ s_ops' = <<>>
    /\ UNCHANGED <<p_origin, p_missing, p_step, p_results, p_ret>>
    /\ UNCHANGED <<v_vars, e_vars, sp_vars, r_vars, c_vars, cl_vars>>

\* The result of the running subtask reaches the orchestrator
SubtaskResult(ret) ==
    /\ p_results' = Append(p_results, ret)
    /\ p_pc' = AfterSubtask(ret)
    /\ p_step' = IF AfterSubtask(ret) = "call" THEN p_step + 1 ELSE p_step
    /\ p_ret' = IF AfterSubtask(ret) = "ABORTED" THEN PyFalse ELSE p_ret

\* The next operation of the running subtask and the test of its result.  A
\* field crack_config lacks raises KeyError where it is read: before the
\* operation is requested, or inside it.
SubtaskStep ==
    /\ p_pc = "in"
    /\ s_pos <= Len(Script(Pipeline[p_step], p_origin))
    /\ LET o == Script(Pipeline[p_step], p_origin)[s_pos] IN
       IF p_missing \in ReadsBefore(o)
       THEN /\ s_ops' = Append(s_ops, [op |-> "KeyError", arg |-> p_missing,
                                       res |-> [kind |-> "raise"]])
            /\ p_pc' = "RAISED"
            /\ UNCHANGED <<s_pos, p_step, p_results, p_ret>>
       ELSE \E res \in ResultsOf(o, p_missing) :
            /\ s_ops' = Append(s_ops, [op |-> o.op, arg |-> o.arg, res |-> res])
            /\ CASE OpOutcome(o.op, res) = "next" ->
                      /\ s_pos' = s_pos + 1
                      /\ UNCHANGED <<p_pc, p_step, p_results, p_ret>>
                 [] OpOutcome(o.op, res) = "False" ->
                      /\ SubtaskResult(PyFalse)
                      /\ UNCHANGED s_pos
                 [] OpOutcome(o.op, res) = "raise" ->
                      /\ p_pc' = "RAISED"
                      /\ UNCHANGED <<s_pos, p_step, p_results, p_ret>>
    /\ UNCHANGED <<p_origin, p_missing, p_invoked>>
    /\ UNCHANGED <<v_vars, e_vars, sp_vars, r_vars, c_vars, cl_vars>>

\* The running subtask reaches its `return True`
SubtaskReturn ==
    /\ p_pc = "in"
    /\ s_pos > Len(Script(Pipeline[p_step], p_origin))
    /\ SubtaskResult(PyTrue)
    /\ UNCHANGED <<p_origin, p_missing, p_invoked, s_pos, s_ops>>
    /\ UNCHANGED <<v_vars, e_vars, sp_vars, r_vars, c_vars, cl_vars>>

\* After the last step complete_roundtrip ends without a return statement
PipelineEnd ==
    /\ p_pc = "call"
    /\ p_step > Len(Pipeline)
    /\ p_pc' = "COMPLETED"
    /\ p_ret' = PyNone
    /\ UNCHANGED <<p_origin, p_missing, p_step, p_invoked, p_results, s_pos, s_ops>>
    /\ UNCHANGED <<v_vars, e_vars, sp_vars, r_vars, c_vars, cl_vars>>

NextPipeline ==
    \/ PipelineRelocate
    \/ SubtaskInvoke
    \/ SubtaskStep
    \/ SubtaskReturn
    \/ PipelineEnd

-----------------------------------------------------------------------------
\* Trajectory files and their reversal

\* Joint states a waypoint can hold
Waypoints == {"A", "B"}

\* The "points" lists a planned trajectory can hold: up to one above every limit
SeqsUpTo(S, n) == UNION {[1..k -> S] : k \in 0..n}
SegmentPoints == SeqsUpTo(Waypoints, MaxLimit + 1)

NoFile == [exists |-> FALSE, points |-> <<>>]
File(points) == [exists |-> TRUE, points |-> points]

\* The waypoints of s in the opposite order
Reverse(s) == [i \in 1..Len(s) |-> s[Len(s) + 1 - i]]

\* Mutant: the destination gets a plain copy of the source
reverse_trajectory_file_Copy(files, src, dst) ==
    [files EXCEPT ![dst] = File(files[src].points)]

\* reverse_trajectory_file(src, dst): the waypoints of the plan stored at src,
\* in the opposite order, stored at dst; src is left as it is.  The sources
\* hold only a placeholder of this function (util.py: `return True`), so its
\* effect is the one the specification of the splicer describes.
reverse_trajectory_file(files, src, dst) ==
    [files EXCEPT ![dst] = File(Reverse(files[src].points))]

\* Largest number of reversals explored in a row
MaxReversals == 3

ReversalPaths ==
    {"tmp_dual_arm_traj_1.json", "tmp_dual_arm_traj_1_reversed.json",
     "tmp_dual_arm_traj_1_restored.json"}

InitReversal ==
    /\ \E points \in SegmentPoints :
          r_files = [f \in ReversalPaths |->
                       IF f = "tmp_dual_arm_traj_1.json" THEN File(points) ELSE NoFile]
    /\ r_calls = <<>>

\* No reversal under way, in the specifications of the other components
IdleReversal ==
    /\ r_files = [f \in ReversalPaths |-> NoFile]
    /\ r_calls = <<>>

\* One call reverse_trajectory_file(src, dst) on a stored plan
ReverseFile ==
    /\ Len(r_calls) < MaxReversals
    /\ \E src \in ReversalPaths : \E dst \in ReversalPaths \ {src} :
        /\ r_files[src].exists
        /\ r_files' = reverse_trajectory_file(r_files, src, dst)
        /\ r_calls' = Append(r_calls, [src |-> src, dst |-> dst,
                                        points |-> r_files[src].points])
    /\ UNCHANGED <<v_vars, e_vars, p_vars, sp_vars, c_vars, cl_vars>>

NextReversal == ReverseFile

-----------------------------------------------------------------------------
\* The splicer: the dynamic segments of pick_crack_from_another_table and
\* pick_front_crack, from the first safe_plan_fast_move_j_to_dual_arm to the
\* `return True`

\* max_retry_times of safe_plan_fast_move_j_to_dual_arm (the callers give none)
PlanRetryDefault == 5

\* What client.fast_move_j_to_dual_arm can return: the response dict of the
\* service (with the waypoints of the plan it stored when the code is 200,
\* consecutive waypoints differing), or
\* False (bad arguments, status query failed, HTTP status != 200, transport
\* exception).  Never None.
SegmentDicts ==
    [kind : {"dict"}, code : {CodeSuccess},
     points : {q \in SegmentPoints : \A i \in 1..(Len(q) - 1) : q[i] # q[i + 1]}]
    \cup [kind : {"dict"}, code : {CodeFailure}, points : {<<>>}]
fast_move_j_to_dual_arm == SegmentDicts \cup {PyFalse}

\* What safe_move_j(client, target, traj_point_limit) can do: return the plan it
\* executed (at most traj_point_limit waypoints), return None or False, or raise
safe_move_j(traj_point_limit) ==
    [kind : {"dict"}, code : {CodeSuccess},
     points : {[i \in 1..n |-> "A"] : n \in 0..traj_point_limit}]
    \cup {PyNone, PyFalse, [kind |-> "raise"]}

SegmentFile(k) ==
    IF k = 1 THEN "tmp_dual_arm_traj_1.json" ELSE "tmp_dual_arm_traj_2.json"
ReversedFile(k) ==
    IF k = 1 THEN "tmp_dual_arm_traj_1_reversed.json"
    ELSE "tmp_dual_arm_traj_2_reversed.json"
SplicerPaths ==
    {SegmentFile(1), ReversedFile(1), SegmentFile(2), ReversedFile(2),
     "tmp_dual_arm_pick_traj.json", "tmp_dual_arm_pick_traj_reversed.json",
     "tmp_dual_arm_setup_front_crack_traj_1.json",
     "tmp_dual_arm_setup_front_crack_traj_2.json"}

\* The static trajectory that follows the reversed segments
StaticTrajectory(task) ==
    IF task = "pick_crack_from_another_table"
    THEN "demo2/pick_crack_remote/3_dual_arm_move_to_body.json"
    ELSE "demo2/pick_front_crack/dual_arm_pick_to_body.json"

\* Mutant: the reversed segments played in the order of their construction
Playback_ConstructionOrder(task) ==
    <<ReversedFile(1), ReversedFile(2), StaticTrajectory(task)>>

\* The three run_traj calls that end the maneuver, in the order of the source
Playback(task) ==
    <<ReversedFile(2), ReversedFile(1), StaticTrajectory(task)>>

\* Right-arm TCP positions an END_POSE can hold, and applied shifts (z masked)
TcpPositions == {<<400, -200, 900>>, <<0, 0, 0>>}
CrackBaseShifts == {<<12, -1, 0>>, <<0, 0, 0>>}

\* right_start_position of a segment plan: traj_right_start_position for
\* segment 1, `traj_right_start_position + np.array(CRACK_BASE_SHIFT)` for
\* segment 2
RightStartPosition(seg, static, shift) ==
    IF seg = 1 THEN static ELSE [a \in Axes |-> static[a] + shift[a]]

DualArmCall(seg, start, position, r) ==
    [op |-> "fast_move_j_to_dual_arm", seg |-> seg, execute |-> FALSE,
     start |-> start, position |-> position, resp |-> r]
CopyCall(dst, points) == [op |-> "cp", dst |-> dst, points |-> points]
ReverseCall(src, dst) == [op |-> "reverse_trajectory_file", src |-> src, dst |-> dst]
MoveCall(target, limit, r) ==
    [op |-> "safe_move_j", target |-> target, limit |-> limit, resp |-> r]
GripperCall == [op |-> "gripper"]
PlayCall(name, r) == [op |-> "run_traj", name |-> name, resp |-> r]

InitSplicer ==
    /\ sp_task \in {"pick_crack_from_another_table", "pick_front_crack"}
    /\ sp_limit = IF sp_task = "pick_crack_from_another_table" THEN MaxLimit
                  ELSE MaxLimit - 1
    /\ sp_pc = "plan"
    /\ sp_seg = 1
    /\ sp_attempt = 0
    /\ sp_result = PyNone
    /\ sp_start = "END_POSE"
    /\ sp_target = NoValue
    /\ sp_files = [f \in SplicerPaths |-> NoFile]
    /\ sp_play = 1
    /\ sp_calls = <<>>
    /\ sp_ret = NoValue
    /\ sp_static \in TcpPositions
    /\ sp_shift \in CrackBaseShifts

\* No maneuver under way, in the specifications of the other components
IdleSplicer ==
    /\ sp_task = "pick_front_crack"
    /\ sp_limit = 0
    /\ sp_pc = "idle"
    /\ sp_seg = 1
    /\ sp_attempt = 0
    /\ sp_result = PyNone
    /\ sp_start = "END_POSE"
    /\ sp_target = NoValue
    /\ sp_files = [f \in SplicerPaths |-> NoFile]
    /\ sp_play = 1
    /\ sp_calls = <<>>
    /\ sp_ret = NoValue
    /\ sp_static = <<0, 0, 0>>
    /\ sp_shift = <<0, 0, 0>>

\* One iteration of safe_plan_fast_move_j_to_dual_arm: the planning call with
\* execute=False and the test of its result.  A plan with code 200 leaves the
\* loop (`break`); its waypoints are not looked at.
SplicerPlan ==
    /\ sp_pc = "plan"
    /\ sp_attempt < PlanRetryDefault
    /\ \E r \in fast_move_j_to_dual_arm :
        /\ sp_attempt' = sp_attempt + 1
        /\ sp_result' = r
        /\ sp_calls' = Append(sp_calls, DualArmCall(sp_seg, sp_start,
                                RightStartPosition(sp_seg, sp_static, sp_shift), r))
        /\ sp_pc' = IF r.kind = "False" THEN "raised"    \* False["code"]: TypeError
                    ELSE IF IsFailure(r) THEN "plan"       \* continue
                    ELSE "store"                           \* break; return result
    /\ UNCHANGED <<sp_task, sp_static, sp_shift, sp_limit, sp_seg, sp_start, sp_target, sp_files,
                   sp_play, sp_ret>>
    /\ UNCHANGED <<v_vars, e_vars, p_vars, r_vars, c_vars, cl_vars>>

\* The loop ran out of iterations: the last failed result is returned, and the
\* caller's `isinstance(...) and ...["code"] == 200` sends it to `return False`
SplicerPlanExhausted ==
    /\ sp_pc = "plan"
    /\ sp_attempt >= PlanRetryDefault
    /\ sp_pc' = "done"
    /\ sp_ret' = PyFalse
    /\ UNCHANGED <<sp_task, sp_static, sp_shift, sp_limit, sp_seg, sp_attempt, sp_result, sp_start,
                   sp_target, sp_files, sp_play, sp_calls>>
    /\ UNCHANGED <<v_vars, e_vars, p_vars, r_vars, c_vars, cl_vars>>

\* The caller got a plan with code 200: cp of the planned file to the segment
\* file, then reverse_trajectory_file into the reversed file
SplicerStore ==
    /\ sp_pc = "store"
    /\ LET copied == [sp_files EXCEPT ![SegmentFile(sp_seg)] = File(sp_result.points)]
       IN sp_files' = reverse_trajectory_file(copied, SegmentFile(sp_seg),
                                              ReversedFile(sp_seg))
    /\ sp_calls' = sp_calls \o <<CopyCall(SegmentFile(sp_seg), sp_result.points),
                                  ReverseCall(SegmentFile(sp_seg), ReversedFile(sp_seg))>>
    /\ sp_pc' = "read"
    /\ UNCHANGED <<sp_task, sp_static, sp_shift, sp_limit, sp_seg, sp_attempt, sp_result, sp_start,
                   sp_target, sp_play, sp_ret>>
    /\ UNCHANGED <<v_vars, e_vars, p_vars, r_vars, c_vars, cl_vars>>

\* Mutant: the target of safe_move_j is read from the reversed segment 1
SplicerRead_Outermost ==
    /\ sp_pc = "read"
    /\ LET points == sp_files[ReversedFile(1)].points IN
       IF sp_files[ReversedFile(sp_seg)].points = <<>>
       THEN sp_pc' = "raised" /\ UNCHANGED <<sp_seg, sp_attempt, sp_start, sp_target>>
       ELSE IF sp_seg = 1
       THEN /\ sp_start' = points[1]
            /\ sp_seg' = 2
            /\ sp_attempt' = 0
            /\ sp_pc' = "plan"
            /\ UNCHANGED sp_target
       ELSE /\ sp_target' = points[1]
            /\ sp_pc' = "move"
            /\ UNCHANGED <<sp_seg, sp_attempt, sp_start>>
    /\ UNCHANGED <<sp_task, sp_static, sp_shift, sp_limit, sp_result, sp_files, sp_play, sp_calls, sp_ret>>
    /\ UNCHANGED <<v_vars, e_vars, p_vars, r_vars, c_vars, cl_vars>>

\* data["points"][0]["positions"] of the reversed file: the start of the next
\* segment plan (after segment 1) or the target of safe_move_j (after
\* segment 2).  An empty "points" list raises IndexError.
SplicerRead ==
    /\ sp_pc = "read"
    /\ LET points == sp_files[ReversedFile(sp_seg)].points IN
       IF points = <<>>
       THEN sp_pc' = "raised" /\ UNCHANGED <<sp_seg, sp_attempt, sp_start, sp_target>>
       ELSE IF sp_seg = 1
       THEN /\ sp_start' = points[1]
            /\ sp_seg' = 2
            /\ sp_attempt' = 0
            /\ sp_pc' = "plan"
            /\ UNCHANGED sp_target
       ELSE /\ sp_target' = points[1]
            /\ sp_pc' = "move"
            /\ UNCHANGED <<sp_seg, sp_attempt, sp_start>>
    /\ UNCHANGED <<sp_task, sp_static, sp_shift, sp_limit, sp_result, sp_files, sp_play, sp_calls, sp_ret>>
    /\ UNCHANGED <<v_vars, e_vars, p_vars, r_vars, c_vars, cl_vars>>

\* safe_move_j to target_joint_states; on success the executed plan is copied
\* and reversed as well, otherwise `return False`
SplicerMove ==
    /\ sp_pc = "move"
    /\ \E result \in safe_move_j(sp_limit) :
        /\ sp_result' = result
        /\ IF result.kind = "raise"
             THEN /\ sp_pc' = "raised"
                  /\ sp_calls' = Append(sp_calls, MoveCall(sp_target, sp_limit, result))
                  /\ UNCHANGED <<sp_files, sp_ret>>
             ELSE IF result.kind = "dict"
             THEN /\ sp_pc' = "grip"
                  /\ LET copied == [sp_files EXCEPT
                                      !["tmp_dual_arm_pick_traj.json"] = File(result.points)]
                     IN sp_files' = reverse_trajectory_file(copied,
                                        "tmp_dual_arm_pick_traj.json",
                                        "tmp_dual_arm_pick_traj_reversed.json")
                  /\ sp_calls' = sp_calls \o
                        <<MoveCall(sp_target, sp_limit, result),
                          CopyCall("tmp_dual_arm_pick_traj.json", result.points),
                          ReverseCall("tmp_dual_arm_pick_traj.json",
                                      "tmp_dual_arm_pick_traj_reversed.json")>>
                  /\ UNCHANGED sp_ret
             ELSE /\ sp_pc' = "done"
                  /\ sp_ret' = PyFalse
                  /\ sp_calls' = Append(sp_calls, MoveCall(sp_target, sp_limit, result))
                  /\ UNCHANGED sp_files
    /\ UNCHANGED <<sp_task, sp_static, sp_shift, sp_limit, sp_seg, sp_attempt, sp_start, sp_target, sp_play>>
    /\ UNCHANGED <<v_vars, e_vars, p_vars, r_vars, c_vars, cl_vars>>

\* client.gripper(**grasp_config) closes the grippers; its result is not looked at
SplicerGrip ==
    /\ sp_pc = "grip"
    /\ sp_calls' = Append(sp_calls, GripperCall)
    /\ sp_pc' = "play"
    /\ UNCHANGED <<sp_task, sp_static, sp_shift, sp_limit, sp_seg, sp_attempt, sp_result, sp_start,
                   sp_target, sp_files, sp_play, sp_ret>>
    /\ UNCHANGED <<v_vars, e_vars, p_vars, r_vars, c_vars, cl_vars>>

\* The next run_traj of the playback and `if ret is None or ret["code"] != 200:
\* return False`; after the third one `return True`
SplicerPlay ==
    /\ sp_pc = "play"
    /\ \E ret \in run_traj :
        /\ sp_calls' = Append(sp_calls, PlayCall(Playback(sp_task)[sp_play], ret))
        /\ IF ret.kind = "raise"
             THEN sp_pc' = "raised" /\ UNCHANGED <<sp_play, sp_ret>>
             ELSE IF IsFailure(ret)
             THEN sp_pc' = "done" /\ sp_ret' = PyFalse /\ UNCHANGED sp_play
             ELSE IF sp_play = Len(Playback(sp_task))
             THEN sp_pc' = "done" /\ sp_ret' = PyTrue /\ UNCHANGED sp_play
             ELSE sp_pc' = "play" /\ sp_play' = sp_play + 1 /\ UNCHANGED sp_ret
    /\ UNCHANGED <<sp_task, sp_static, sp_shift, sp_limit, sp_seg, sp_attempt, sp_result, sp_start,
                   sp_target, sp_files>>
    /\ UNCHANGED <<v_vars, e_vars, p_vars, r_vars, c_vars, cl_vars>>

NextSplicer ==
    \/ SplicerPlan
    \/ SplicerPlanExhausted
    \/ SplicerStore
    \/ SplicerRead
    \/ SplicerMove
    \/ SplicerGrip
    \/ SplicerPlay

-----------------------------------------------------------------------------
\* The dynamic segments of setup_front_crack: both planned forward, stored
\* without reversal, played in the order of their construction

SetupFile(k) ==
    IF k = 1 THEN "tmp_dual_arm_setup_front_crack_traj_1.json"
    ELSE "tmp_dual_arm_setup_front_crack_traj_2.json"

\* Mutant: the second segment played before the first
SetupPlayback_Swapped ==
    <<SetupFile(2), SetupFile(1),
      "demo2/setup_front_crack/4_to_pick_front_ready_2_reversed.json",
      "demo2/setup_front_crack/5_to_pick_front_ready_reversed.json">>

\* The run_traj calls that follow the second plan, in the order of the source
SetupPlayback ==
    <<SetupFile(1), SetupFile(2),
      "demo2/setup_front_crack/4_to_pick_front_ready_2_reversed.json",
      "demo2/setup_front_crack/5_to_pick_front_ready_reversed.json">>

TrajStartCall(name) == [op |-> "move_j_to_traj_start", name |-> name]

InitSetup ==
    /\ sp_task = "setup_front_crack"
    /\ sp_limit = 0
    /\ sp_pc = "setup_plan"
    /\ sp_seg = 1
    /\ sp_attempt = 0
    /\ sp_result = PyNone
    /\ sp_start = "END_POSE"
    /\ sp_target = NoValue
    /\ sp_files = [f \in SplicerPaths |-> NoFile]
    /\ sp_play = 1
    /\ sp_calls = <<>>
    /\ sp_ret = NoValue
    /\ sp_static \in TcpPositions
    /\ sp_shift \in CrackBaseShifts

\* One iteration of safe_plan_fast_move_j_to_dual_arm, called by setup_front_crack
SetupPlan ==
    /\ sp_pc = "setup_plan"
    /\ sp_attempt < PlanRetryDefault
    /\ \E r \in fast_move_j_to_dual_arm :
        /\ sp_attempt' = sp_attempt + 1
        /\ sp_result' = r
        /\ sp_calls' = Append(sp_calls,
                          DualArmCall(sp_seg, sp_start,
                                RightStartPosition(sp_seg, sp_static, sp_shift), r))
        /\ sp_pc' = IF r.kind = "False" THEN "raised"    \* False["code"]: TypeError
                    ELSE IF IsFailure(r) THEN "setup_plan" \* continue
                    ELSE "setup_store"                     \* break; return result
    /\ UNCHANGED <<sp_task, sp_static, sp_shift, sp_limit, sp_seg, sp_start,
                   sp_target, sp_files, sp_play, sp_ret>>
    /\ UNCHANGED <<v_vars, e_vars, p_vars, r_vars, c_vars, cl_vars>>

\* The loop ran out of iterations: setup_front_crack returns False
SetupPlanExhausted ==
    /\ sp_pc = "setup_plan"
    /\ sp_attempt >= PlanRetryDefault
    /\ sp_pc' = "done"
    /\ sp_ret' = PyFalse
    /\ UNCHANGED <<sp_task, sp_static, sp_shift, sp_limit, sp_seg, sp_attempt,
                   sp_result, sp_start, sp_target, sp_files, sp_play, sp_calls>>
    /\ UNCHANGED <<v_vars, e_vars, p_vars, r_vars, c_vars, cl_vars>>

\* cp of the planned file to the segment file; no reversed file is written
SetupStore ==
    /\ sp_pc = "setup_store"
    /\ sp_files' = [sp_files EXCEPT ![SetupFile(sp_seg)] = File(sp_result.points)]
    /\ sp_calls' = Append(sp_calls, CopyCall(SetupFile(sp_seg), sp_result.points))
    /\ sp_pc' = IF sp_seg = 1 THEN "setup_read" ELSE "setup_play"
    /\ UNCHANGED <<sp_task, sp_static, sp_shift, sp_limit, sp_seg, sp_attempt,
                   sp_result, sp_start, sp_target, sp_play, sp_ret>>
    /\ UNCHANGED <<v_vars, e_vars, p_vars, r_vars, c_vars, cl_vars>>

\* Mutant: the second segment starts where the first one starts
SetupRead_First ==
    /\ sp_pc = "setup_read"
    /\ LET points == sp_files[SetupFile(1)].points IN
       IF points = <<>>
       THEN sp_pc' = "raised" /\ UNCHANGED <<sp_seg, sp_attempt, sp_start>>
       ELSE /\ sp_start' = points[1]
            /\ sp_seg' = 2
            /\ sp_attempt' = 0
            /\ sp_pc' = "setup_plan"
    /\ UNCHANGED <<sp_task, sp_static, sp_shift, sp_limit, sp_result, sp_target,
                   sp_files, sp_play, sp_calls, sp_ret>>
    /\ UNCHANGED <<v_vars, e_vars, p_vars, r_vars, c_vars, cl_vars>>

\* data["points"][-1]["positions"] of segment file 1: the start of the second
\* segment plan.  An empty "points" list raises IndexError.
SetupRead ==
    /\ sp_pc = "setup_read"
    /\ LET points == sp_files[SetupFile(1)].points IN
       IF points = <<>>
       THEN sp_pc' = "raised" /\ UNCHANGED <<sp_seg, sp_attempt, sp_start>>
       ELSE /\ sp_start' = points[Len(points)]
            /\ sp_seg' = 2
            /\ sp_attempt' = 0
            /\ sp_pc' = "setup_plan"
    /\ UNCHANGED <<sp_task, sp_static, sp_shift, sp_limit, sp_result, sp_target,
                   sp_files, sp_play, sp_calls, sp_ret>>
    /\ UNCHANGED <<v_vars, e_vars, p_vars, r_vars, c_vars, cl_vars>>

\* The next run_traj and `if ret is None or ret["code"] != 200: return False`;
\* after the second one the rack is released, after the fourth `return True`
SetupPlay ==
    /\ sp_pc = "setup_play"
    /\ \E ret \in run_traj :
        /\ sp_calls' = Append(sp_calls, PlayCall(SetupPlayback[sp_play], ret))
        /\ IF ret.kind = "raise"
             THEN sp_pc' = "raised" /\ UNCHANGED <<sp_play, sp_ret>>
             ELSE IF IsFailure(ret)
             THEN sp_pc' = "done" /\ sp_ret' = PyFalse /\ UNCHANGED sp_play
             ELSE IF sp_play = Len(SetupPlayback)
             THEN sp_pc' = "done" /\ sp_ret' = PyTrue /\ UNCHANGED sp_play
             ELSE /\ sp_pc' = IF sp_play = 2 THEN "setup_release" ELSE "setup_play"
                  /\ sp_play' = sp_play + 1
                  /\ UNCHANGED sp_ret
    /\ UNCHANGED <<sp_task, sp_static, sp_shift, sp_limit, sp_seg, sp_attempt,
                   sp_result, sp_start, sp_target, sp_files>>
    /\ UNCHANGED <<v_vars, e_vars, p_vars, r_vars, c_vars, cl_vars>>

\* client.gripper(**release_gripper_config), move_j_to_traj_start and the
\* gripper command that opens the hands; none of their results is looked at
SetupRelease ==
    /\ sp_pc = "setup_release"
    /\ sp_calls' = sp_calls \o
          <<GripperCall, TrajStartCall(SetupPlayback[sp_play]), GripperCall>>
    /\ sp_pc' = "setup_play"
    /\ UNCHANGED <<sp_task, sp_static, sp_shift, sp_limit, sp_seg, sp_attempt,
                   sp_result, sp_start, sp_target, sp_files, sp_play, sp_ret>>
    /\ UNCHANGED <<v_vars, e_vars, p_vars, r_vars, c_vars, cl_vars>>

NextSetup ==
    \/ SetupPlan
    \/ SetupPlanExhausted
    \/ SetupStore
    \/ SetupRead
    \/ SetupPlay
    \/ SetupRelease

-----------------------------------------------------------------------------
\* Subtask data: what push_front_crack, pull_out_crack, setup_front_crack and
\* the two pick subtasks compute from crack_config and from the offset
\* safe_get_tf_shift returned, up to the command that closes the grippers

ContextTasks ==
    {"push_front_crack", "pull_out_crack", "setup_front_crack",
     "pick_crack_from_another_table", "pick_front_crack"}

\* crack_config["base_shift"], in millimetres
BaseShifts == {<<0, 0, 0>>, <<10, 0, 0>>, <<5, 2, 16>>}

\* crack_config["grasp_gripper_config"]: keyword arguments of client.gripper
\* (positions in millimetres)
GripperConfigs ==
    {[left_position |-> 30, right_position |-> 30],
     [right_position |-> 80, right_force |-> 25]}

\* Mutant: the z component of the offset is kept
MaskZ_Keep(shift) == shift

\* `front_crack_shift[2] = 0` (crack2_shift, base_shift): the list the
\* estimator returned, with its third element replaced
MaskZ(shift) == [shift EXCEPT ![3] = 0]

\* np.array(crack_config["base_shift"]) + np.array(shift): component-wise sum
AppliedShift(base_shift, shift) == [a \in Axes |-> base_shift[a] + shift[a]]

\* `if "left_position" in grasp_config: grasp_config["left_position"] = 0.0`
\* and the same for "right_position"
Closed(grasp_config) ==
    [k \in DOMAIN grasp_config |->
        IF k \in {"left_position", "right_position"} THEN 0 ELSE grasp_config[k]]

\* Mutant: grasp_config is the dictionary held by crack_config, not a copy
CloseGripper_Alias(config) ==
    [config |-> [config EXCEPT !.grasp_gripper_config = Closed(@)],
     sent |-> Closed(config.grasp_gripper_config)]

\* grasp_config = deepcopy(crack_config["grasp_gripper_config"]), the two
\* assignments to the copy, client.gripper(**grasp_config): the configuration
\* afterwards and the keyword arguments sent
CloseGripper(config) ==
    [config |-> config, sent |-> Closed(config.grasp_gripper_config)]

InitContext ==
    /\ c_task \in ContextTasks
    /\ c_config \in [base_shift : BaseShifts, grasp_gripper_config : GripperConfigs]
    /\ c_given = c_config
    /\ c_offset \in OffsetSamples
    /\ c_shift = c_offset
    /\ c_applied = NoValue
    /\ c_sent = NoValue
    /\ c_pc = "estimated"

\* No subtask data, in the specifications of the other components
IdleContext ==
    /\ c_task = "push_front_crack"
    /\ c_config = [base_shift |-> <<0, 0, 0>>,
                   grasp_gripper_config |-> [left_position |-> 30, right_position |-> 30]]
    /\ c_given = c_config
    /\ c_offset = <<0, 0, 0>>
    /\ c_shift = <<0, 0, 0>>
    /\ c_applied = NoValue
    /\ c_sent = NoValue
    /\ c_pc = "idle"

\* The z component of the returned offset is cleared
ContextMask ==
    /\ c_pc = "estimated"
    /\ c_shift' = MaskZ(c_shift)
    /\ c_pc' = "masked"
    /\ UNCHANGED <<c_task, c_config, c_given, c_offset, c_applied, c_sent>>
    /\ UNCHANGED <<v_vars, e_vars, p_vars, sp_vars, r_vars, cl_vars>>

\* target_position (push, pull) / CRACK_BASE_SHIFT (setup, picks)
ContextApply ==
    /\ c_pc = "masked"
    /\ c_applied' = AppliedShift(c_config["base_shift"], c_shift)
    /\ c_pc' = "applied"
    /\ UNCHANGED <<c_task, c_config, c_given, c_offset, c_shift, c_sent>>
    /\ UNCHANGED <<v_vars, e_vars, p_vars, sp_vars, r_vars, cl_vars>>

\* The grippers are closed (every subtask but setup_front_crack, which only
\* releases)
ContextClose ==
    /\ c_pc = "applied"
    /\ c_task # "setup_front_crack"
    /\ c_config' = CloseGripper(c_config).config
    /\ c_sent' = CloseGripper(c_config).sent
    /\ c_pc' = "closed"
    /\ UNCHANGED <<c_task, c_given, c_offset, c_shift, c_applied>>
    /\ UNCHANGED <<v_vars, e_vars, p_vars, sp_vars, r_vars, cl_vars>>

NextContext ==
    \/ ContextMask
    \/ ContextApply
    \/ ContextClose

-----------------------------------------------------------------------------
\* The client (LabbotManagerClientBase / Aico2): how one operation turns the
\* answer of the Motion Service into the value it returns

\* The code client.gripper compares with: `result.get("code") == 0`
GripperSuccess == 0

\* The operations of the client the subtasks and util.py call
ClientOps ==
    {"move_j", "fast_move_j_to", "run_traj", "create_frame", "get_frame_offset",
     "force_comp", "gripper"}

\* What a request can end in: a response with HTTP status 200 and a JSON body
\* (code, and overall_success in the body of /control_grippers), another HTTP
\* status, or a RequestException
ServiceCodes == {GripperSuccess, CodeSuccess, CodeFailure}
Responses ==
    [transport : {"ok"}, code : ServiceCodes, overall_success : BOOLEAN]
    \cup [transport : {"status", "exception"}, code : {CodeFailure},
          overall_success : {FALSE}]

PyBool(b) == IF b THEN PyTrue ELSE PyFalse

\* client.gripper: overall_success of a response with code 0, otherwise False
GripperReturn(resp) ==
    IF resp.transport = "ok" /\ resp.code = GripperSuccess
    THEN PyBool(resp.overall_success)
    ELSE PyFalse

\* The value each operation returns for a response
ClientReturn(op, resp) ==
    CASE op = "move_j" ->
           IF resp.transport = "ok" THEN RunDict(resp.code) ELSE PyFalse
      [] op = "fast_move_j_to" ->
           IF resp.transport = "ok" THEN RunDict(resp.code) ELSE PyNone
      [] op = "run_traj" ->
           IF resp.transport = "ok" THEN RunDict(resp.code)
           ELSE IF resp.transport = "status" THEN PyNone
           ELSE [kind |-> "raise"]
      [] op = "create_frame" ->
           PyBool(resp.transport = "ok" /\ resp.code = CodeSuccess)
      [] op = "get_frame_offset" ->
           IF resp.transport = "ok" /\ resp.code = CodeSuccess
           THEN RunDict(resp.code) ELSE PyNone
      [] op = "force_comp" ->
           IF resp.transport = "ok" THEN RunDict(resp.code) ELSE PyFalse
      [] op = "gripper" -> GripperReturn(resp)

InitClient ==
    /\ cl_op \in ClientOps
    /\ cl_pc = "call"
    /\ cl_response = NoValue
    /\ cl_ret = NoValue

\* No call under way, in the specifications of the other components
IdleClient ==
    /\ cl_op = "gripper"
    /\ cl_pc = "idle"
    /\ cl_response = NoValue
    /\ cl_ret = NoValue

\* requests.post(...): the request is answered, or fails
ClientPost ==
    /\ cl_pc = "call"
    /\ \E resp \in Responses : cl_response' = resp
    /\ cl_pc' = "answered"
    /\ UNCHANGED <<cl_op, cl_ret>>
    /\ UNCHANGED <<v_vars, e_vars, p_vars, sp_vars, r_vars, c_vars>>

\* The operation looks at the answer and returns (or raises)
ClientAnswer ==
    /\ cl_pc = "answered"
    /\ cl_ret' = ClientReturn(cl_op, cl_response)
    /\ cl_pc' = IF cl_ret'.kind = "raise" THEN "raised" ELSE "returned"
    /\ UNCHANGED <<cl_op, cl_response>>
    /\ UNCHANGED <<v_vars, e_vars, p_vars, sp_vars, r_vars, c_vars>>

NextClient ==
    \/ ClientPost
    \/ ClientAnswer

-----------------------------------------------------------------------------
\* Specifications: one per component, the other components at rest

InitSpecValidator ==
    InitValidator /\ IdleEstimator /\ IdlePipeline /\ IdleSplicer /\ IdleReversal
       /\ IdleContext /\ IdleClient
SpecValidator == InitSpecValidator /\ [][NextValidator]_vars

InitSpecEstimator ==
    InitEstimator /\ IdleValidator /\ IdlePipeline /\ IdleSplicer /\ IdleReversal
       /\ IdleContext /\ IdleClient
SpecEstimator == InitSpecEstimator /\ [][NextEstimator]_vars

InitSpecPipeline ==
    InitPipeline /\ IdleValidator /\ IdleEstimator /\ IdleSplicer /\ IdleReversal
       /\ IdleContext /\ IdleClient
SpecPipeline == InitSpecPipeline /\ [][NextPipeline]_vars

\* complete_roundtrip is sequential code: whenever a step can be taken, one is
FairSpecPipeline == InitSpecPipeline /\ [][NextPipeline]_vars /\ WF_vars(NextPipeline)

InitSpecSplicer ==
    InitSplicer /\ IdleValidator /\ IdleEstimator /\ IdlePipeline /\ IdleReversal
       /\ IdleContext /\ IdleClient
SpecSplicer == InitSpecSplicer /\ [][NextSplicer]_vars

InitSpecReversal ==
    InitReversal /\ IdleValidator /\ IdleEstimator /\ IdlePipeline /\ IdleSplicer
       /\ IdleContext /\ IdleClient
SpecReversal == InitSpecReversal /\ [][NextReversal]_vars

InitSpecContext ==
    InitContext /\ IdleValidator /\ IdleEstimator /\ IdlePipeline /\ IdleSplicer
       /\ IdleReversal /\ IdleClient
SpecContext == InitSpecContext /\ [][NextContext]_vars

\* Every maneuver with dynamic segments: a pick, or setup_front_crack
InitSpecSetup ==
    InitSetup /\ IdleValidator /\ IdleEstimator /\ IdlePipeline /\ IdleReversal
       /\ IdleContext /\ IdleClient
InitSpecDynamic == InitSpecSplicer \/ InitSpecSetup
NextDynamic == NextSplicer \/ NextSetup
SpecDynamic == InitSpecDynamic /\ [][NextDynamic]_vars

InitSpecClient ==
    InitClient /\ IdleValidator /\ IdleEstimator /\ IdlePipeline /\ IdleSplicer
       /\ IdleReversal /\ IdleContext
SpecClient == InitSpecClient /\ [][NextClient]_vars

-----------------------------------------------------------------------------
\* Properties of the validator

ValidatorTerminated == v_pc \in {"done", "raised"}
PlanIdx == {i \in DOMAIN v_calls : v_calls[i].op = "plan"}
RunIdx  == {i \in DOMAIN v_calls : v_calls[i].op = "run_traj"}

\* The planner returned a plan (code 200) whose waypoint count the validator
\* could read from its trajectory file
HasCount(r) ==
    /\ r.kind = "dict"
    /\ r.code = CodeSuccess
    /\ r.readable
    /\ (r.aslist => v_fn = "safe_move_j")

\* C1: run_traj is never called with the id of a plan whose waypoint count
\* exceeds traj_point_limit; and when every attempt returned a plan with more
\* waypoints than the limit, the validator has used all max_retry_times
\* attempts, returned None, and issued no run_traj at all.
C1_NeverExecutesOverLimit ==
    /\ \A i \in RunIdx : \E j \in PlanIdx :
          /\ j < i
          /\ v_calls[j].id = v_calls[i].id
          /\ v_calls[j].resp.kind = "dict"
          /\ v_calls[j].resp.npoints <= v_limit
    /\ ( /\ ValidatorTerminated
         /\ \A j \in DOMAIN v_calls :
               /\ v_calls[j].op = "plan"
               /\ HasCount(v_calls[j].resp)
               /\ v_calls[j].resp.npoints > v_limit )
       => ( /\ v_pc = "done"
            /\ v_ret = PyNone
            /\ Len(v_calls) = v_max
            /\ RunIdx = {} )

C1_Witness ==
    /\ v_pc = "done"
    /\ v_max >= 2
    /\ Len(v_calls) = v_max
    /\ \A j \in DOMAIN v_calls :
          HasCount(v_calls[j].resp) /\ v_calls[j].resp.npoints > v_limit
    /\ v_ret = PyNone

\* C2: when the first plan returned has at most traj_point_limit waypoints,
\* the validator issues exactly one plan call, executes that plan as its next
\* call, and returns the plan's response if the execution succeeds.
C2_FirstPlanAccepted ==
    ( /\ Len(v_calls) >= 1
      /\ HasCount(v_calls[1].resp)
      /\ v_calls[1].resp.npoints <= v_limit )
    => ( /\ PlanIdx = {1}
         /\ Len(v_calls) <= 2
         /\ Len(v_calls) = 2 =>
               /\ v_calls[2].op = "run_traj"
               /\ v_calls[2].id = v_calls[1].id
               /\ ValidatorTerminated
               /\ (v_calls[2].resp = RunDict(CodeSuccess)
                     => v_pc = "done" /\ v_ret = v_calls[1].resp)
         /\ ValidatorTerminated => Len(v_calls) = 2 )

C2_Witness ==
    /\ v_pc = "done"
    /\ v_max >= 2
    /\ Len(v_calls) = 2
    /\ v_calls[1].op = "plan"
    /\ v_calls[1].resp.npoints <= v_limit
    /\ v_calls[2] = RunCall(1, RunDict(CodeSuccess))
    /\ v_ret = v_calls[1].resp

\* C3: every non-success outcome of the plan-only call (None, False, or a
\* response whose code is not 200) consumes exactly one attempt and leaves the
\* validator in its loop (or at its normal exit): it never ends abnormally.
C3_PlanFailureIsReject ==
    \A i \in PlanIdx :
        (v_calls[i].resp.kind \in {"None", "False"}
           \/ (v_calls[i].resp.kind = "dict" /\ v_calls[i].resp.code # CodeSuccess))
        => ( /\ v_calls[i].id = i
             /\ i = Len(v_calls) => (v_pc \in {"loop", "done"} /\ v_attempt = i) )

\* C4: a failed execution (run_traj returned None or a code other than 200)
\* makes the validator return False at once: the failed run_traj is the last
\* call of the invocation, and an invocation issues at most one run_traj.
C4_ExecuteFailureIsFatal ==
    /\ Cardinality(RunIdx) <= 1
    /\ \A i \in RunIdx :
          IsFailure(v_calls[i].resp)
          => (i = Len(v_calls) /\ v_pc = "done" /\ v_ret = PyFalse)

C4_Witness ==
    /\ v_attempt < v_max
    /\ Len(v_calls) >= 3
    /\ v_calls[Len(v_calls)].op = "run_traj"
    /\ IsFailure(v_calls[Len(v_calls)].resp)
    /\ v_ret = PyFalse

\* C5: a plan is accepted exactly when its waypoint count is <= the limit: a
\* plan with at most traj_point_limit waypoints is followed by its run_traj,
\* a plan with more is followed by another plan call, or by the end of the
\* invocation when no attempt is left.
C5_AcceptIffWithinLimit ==
    \A i \in PlanIdx :
        HasCount(v_calls[i].resp) =>
            IF v_calls[i].resp.npoints <= v_limit
            THEN /\ i < Len(v_calls) =>
                       (v_calls[i+1].op = "run_traj" /\ v_calls[i+1].id = v_calls[i].id)
                 /\ i = Len(v_calls) => v_pc \in {"inspect", "execute"}
            ELSE /\ i < Len(v_calls) => v_calls[i+1].op = "plan"
                 /\ i = Len(v_calls) => v_pc \in {"inspect", "loop", "done"}
                 /\ (i = Len(v_calls) /\ v_pc = "done") => (i = v_max /\ v_ret = PyNone)

C5_Witness ==
    /\ Len(v_calls) = 3
    /\ HasCount(v_calls[1].resp) /\ v_calls[1].resp.npoints = v_limit + 1
    /\ v_calls[2].op = "plan"
    /\ HasCount(v_calls[2].resp) /\ v_calls[2].resp.npoints = v_limit
    /\ v_calls[3].op = "run_traj"

\* A plan call the validator should count as a REJECT: a planner failure
\* (None, False, code other than 200) or a plan over the waypoint limit
IsReject(c) ==
    /\ c.op = "plan"
    /\ \/ c.resp.kind \in {"None", "False"}
       \/ (c.resp.kind = "dict" /\ c.resp.code # CodeSuccess)
       \/ (HasCount(c.resp) /\ c.resp.npoints > v_limit)

\* C6: the validator issues at most max_retry_times plan calls, and once
\* max_retry_times attempts were REJECTs (planner failures or over-limit
\* plans, in any mix) it ends by returning None with no run_traj issued.
C6_ExhaustionReturnsNone ==
    /\ Cardinality(PlanIdx) <= v_max
    /\ ( /\ ValidatorTerminated
         /\ Cardinality({i \in DOMAIN v_calls : IsReject(v_calls[i])}) = v_max )
       => (v_pc = "done" /\ v_ret = PyNone /\ RunIdx = {})

-----------------------------------------------------------------------------
\* Properties of the offset estimator

\* The get_frame_offset calls that reported an offset, in order
OffsetReports == SelectSeq(e_calls, LAMBDA c : c.op = "get_frame_offset" /\ c.resp.kind = "dict")
WithinLimits(o) == \A a \in Axes : Abs(o[a]) <= e_limits[a]

\* C10: an attempt is accepted, i.e. its offset is returned straight from the
\* loop, if and only if the offset is within the limit on all three axes; the
\* accepted attempt is the last call of the invocation; an attempt that is over
\* the limit on some axis is recorded in the history and the loop goes on (to
\* the next attempt, or to the fallback when no attempt is left).
C10_AcceptIffWithinTolerance ==
    /\ e_hist = [k \in 1..Len(OffsetReports) |-> OffsetReports[k].resp.position_offset]
    /\ \A i \in DOMAIN e_calls :
          (e_calls[i].op = "get_frame_offset" /\ e_calls[i].resp.kind = "dict") =>
              LET o == e_calls[i].resp.position_offset IN
              IF WithinLimits(o)
              THEN /\ i = Len(e_calls)
                   /\ e_pc = "done"
                   /\ e_via = "accept"
                   /\ e_ret = PyList(o, 1)
              ELSE /\ i = Len(e_calls) => (e_pc \in {"loop", "done"} /\ e_via # "accept")
                   /\ i < Len(e_calls) => e_calls[i+1].op = "create_frame"
    /\ e_via = "accept" =>
          /\ Len(e_calls) > 0
          /\ e_calls[Len(e_calls)].op = "get_frame_offset"
          /\ e_calls[Len(e_calls)].resp.kind = "dict"

C10_Witness ==
    /\ e_via = "accept"
    /\ Len(e_hist) = 2
    /\ ~WithinLimits(e_hist[1])
    /\ WithinLimits(e_hist[2])
    /\ e_i < e_retry
    /\ e_ret = PyList(e_hist[2], 1)

\* The statements after the loop (the fallback) were reached: the estimator
\* ended without accepting an attempt and not inside get_frame_offset's handling
FallbackReached ==
    /\ e_pc \in {"done", "raised"}
    /\ e_via # "accept"
    /\ ~(/\ Len(e_calls) > 0
         /\ e_calls[Len(e_calls)].op = "get_frame_offset"
         /\ e_calls[Len(e_calls)].resp.kind = "None")

\* The offsets the get_frame_offset calls reported, in order
Recorded == [k \in 1..Len(OffsetReports) |-> OffsetReports[k].resp.position_offset]

RECURSIVE SumFn(_, _)
SumFn(f, S) ==
    IF S = {} THEN 0
    ELSE LET x == CHOOSE y \in S : TRUE IN f[x] + SumFn(f, S \ {x})

\* The sum of axis a over the samples h
AxisTotal(h, a) == SumFn([k \in DOMAIN h |-> h[k][a]], DOMAIN h)

\* n^2 times the variance of axis a, as the sum of the squared differences of
\* all pairs of samples
PairSq(h, a) ==
    LET P == {q \in (DOMAIN h) \X (DOMAIN h) : q[1] < q[2]}
    IN SumFn([q \in P |-> (h[q[1]][a] - h[q[2]][a]) * (h[q[1]][a] - h[q[2]][a])], P)

\* floor(100 * n * std_a) summed over the axes: 100 * n * sum(std) lies in
\* [StdSumFloor(h), StdSumFloor(h) + 3)
StdSumFloor(h) ==
    ISqrt(10000 * PairSq(h, 1)) + ISqrt(10000 * PairSq(h, 2)) + ISqrt(10000 * PairSq(h, 3))
StdSumBelow(h)    == StdSumFloor(h) + 3 <= 100 * Len(h) * SmoothThreshold
StdSumNotBelow(h) == StdSumFloor(h) >= 100 * Len(h) * SmoothThreshold

AllOver(h) == \A k \in DOMAIN h : ~WithinLimits(h[k])

\* Any two samples of h are at most d apart (in millimetres) on every axis
PairwiseWithin(h, d) ==
    \A i \in DOMAIN h : \A j \in DOMAIN h : \A a \in Axes : Abs(h[i][a] - h[j][a]) <= d

\* The per-axis mean of three samples
MeanOfThree(h) == PyList([a \in Axes |-> h[1][a] + h[2][a] + h[3][a]], 3)

\* C12: when the fallback is reached with three recorded samples, all of them
\* out of tolerance and any two of them less than 0.01 (10 mm) apart on every
\* axis, the estimator returns their mean.
C12_CloseSamplesReturnMean ==
    ( /\ FallbackReached
      /\ Len(Recorded) = 3
      /\ AllOver(Recorded)
      /\ PairwiseWithin(Recorded, SmoothThreshold - 1) )
    => (e_pc = "done" /\ e_ret = MeanOfThree(Recorded))

\* C12 as amended: the same with any two samples at most 0.007 (7 mm) apart on
\* every axis.  (Three values within a range r have a standard deviation of at
\* most r * sqrt(2) / 3, so the three axes sum to at most r * sqrt(2).)
C12_Amended ==
    ( /\ FallbackReached
      /\ Len(Recorded) = 3
      /\ AllOver(Recorded)
      /\ PairwiseWithin(Recorded, 7) )
    => (e_pc = "done" /\ e_via = "mean" /\ e_ret = MeanOfThree(Recorded))

C12_Witness ==
    /\ FallbackReached
    /\ e_limits = <<5, 5, 5>>
    /\ Recorded = << <<6, 6, 6>>, <<13, 13, 13>>, <<6, 6, 6>> >>
    /\ e_ret = PyList(<<25, 25, 25>>, 3)

\* The standard deviation of some axis of h is at least 0.01
AxisStdAtLeastThreshold(h) ==
    \E a \in Axes :
        PairSq(h, a) >= (Len(h) * SmoothThreshold) * (Len(h) * SmoothThreshold)

\* C13: when the fallback is reached with recorded samples that are all out of
\* tolerance and whose standard deviation on some axis is >= 0.01, the
\* estimator returns None; it never returns a mean of such samples.
C13_ScatteredSamplesFail ==
    /\ ( /\ FallbackReached
         /\ Recorded # <<>>
         /\ AllOver(Recorded)
         /\ AxisStdAtLeastThreshold(Recorded) )
       => (e_pc = "done" /\ e_via = "fail" /\ e_ret = PyNone)
    /\ e_via = "mean" => ~AxisStdAtLeastThreshold(Recorded)

C13_Witness ==
    /\ FallbackReached
    /\ e_limits = <<5, 5, 5>>
    /\ Recorded = << <<2, -1, 30>>, <<6, 0, 0>> >>
    /\ e_ret = PyNone

\* The create_frame calls of the runtime frame, and the get_frame_offset calls
RuntimeBuilds == {i \in DOMAIN e_calls : /\ e_calls[i].op = "create_frame"
                                          /\ e_calls[i].frame = "tf_name_runtime"}
OffsetIdx == {i \in DOMAIN e_calls : e_calls[i].op = "get_frame_offset"}

\* C14: when create_frame failed on every one of the retry_times attempts, so
\* that no offset was ever requested or recorded, the estimator ends by
\* returning None: it neither returns a value nor ends abnormally.
C14_NoSampleReturnsNone ==
    ( /\ e_pc \in {"done", "raised"}
      /\ e_retry >= 1
      /\ Cardinality(RuntimeBuilds) = e_retry
      /\ \A i \in RuntimeBuilds : ~e_calls[i].ok
      /\ OffsetIdx = {} )
    => (e_pc = "done" /\ e_ret = PyNone)

\* C15: a get_frame_offset call that returns None is a REJECT of its attempt:
\* nothing is recorded for it, and the estimator stays in its loop (or goes on
\* to its normal exit when no attempt is left); it never ends abnormally there.
C15_OffsetFailureIsReject ==
    /\ e_hist = Recorded
    /\ \A i \in OffsetIdx :
          e_calls[i].resp.kind = "None" =>
              /\ i = Len(e_calls) => e_pc \in {"loop", "done"}
              /\ i < Len(e_calls) => e_calls[i + 1].op = "create_frame"

\* C16: an offset that comes from a single recorded sample is returned only
\* when it is within the limit on every axis.
C16_NoSingleOutlierTrusted ==
    (e_ret.kind = "list" /\ Len(Recorded) = 1) =>
        /\ WithinLimits(Recorded[1])
        /\ e_via = "accept"

\* C17: the settle wait is the first call and happens once; the estimator
\* makes at most retry_times create_frame calls of the runtime frame and at
\* most retry_times get_frame_offset calls, one offset call per successful
\* build; when it ends with every reported offset out of tolerance it has made
\* exactly retry_times builds, and exactly retry_times offset calls when every
\* build succeeded.
C17_AttemptBound ==
    /\ e_pc # "start" => (Len(e_calls) >= 1 /\ e_calls[1] = SleepCall)
    /\ \A i \in DOMAIN e_calls : e_calls[i].op = "sleep" => i = 1
    /\ Cardinality(RuntimeBuilds) <= e_retry
    /\ Cardinality(OffsetIdx) <= e_retry
    /\ Cardinality(OffsetIdx) <= Cardinality({i \in RuntimeBuilds : e_calls[i].ok})
    /\ ( /\ e_pc \in {"done", "raised"}
         /\ \A i \in OffsetIdx : e_calls[i].resp.kind = "dict"
         /\ AllOver(Recorded) )
       => ( /\ Cardinality(RuntimeBuilds) = e_retry
            /\ Cardinality(OffsetIdx) = Cardinality({i \in RuntimeBuilds : e_calls[i].ok})
            /\ (\A i \in RuntimeBuilds : e_calls[i].ok)
                  => (Cardinality(OffsetIdx) = e_retry /\ Len(e_hist) = e_retry) )

C17_Witness ==
    /\ e_pc = "done"
    /\ e_retry = 3
    /\ Len(Recorded) = 3
    /\ AllOver(Recorded)
    /\ Cardinality(RuntimeBuilds) = 3
    /\ Cardinality(OffsetIdx) = 3
    /\ e_calls[1] = SleepCall

-----------------------------------------------------------------------------
\* Properties of the orchestrator

\* The order of the steps as the specification lists it
StatedOrder ==
    << "pick_crack_from_another_table", "agv_move LM8", "setup_front_crack",
       "push_front_crack", "pull_out_crack", "pick_front_crack", "agv_move LM4",
       "put_crack_on_another_table" >>

\* C7: if the subtask at position k returns failure, no step after it is
\* invoked and the pipeline returns False, for every position k.
C7_AbortOnFirstFailure ==
    \A k \in DOMAIN p_results :
        (~IsRelocation(p_invoked[k]) /\ p_results[k] # PyTrue) =>
            /\ Len(p_invoked) = k
            /\ Len(p_results) = k
            /\ p_pc = "ABORTED"
            /\ p_ret = PyFalse

C7_Witness ==
    /\ Len(p_results) = 4
    /\ p_results[4] = PyFalse
    /\ p_invoked[4] = "push_front_crack"
    /\ p_pc = "ABORTED"
    /\ p_ret = PyFalse

\* C8: complete_roundtrip returns a boolean, and when every subtask returned
\* True the pipeline ends COMPLETED and returns True.
C8_ReturnsTrueWhenAllSucceed ==
    /\ p_ret \in {NoValue, PyTrue, PyFalse}
    /\ (Len(p_results) = Len(StatedOrder) /\ \A k \in DOMAIN p_results : p_results[k] = PyTrue
          /\ p_pc \notin {"call", "in"})
       => (p_pc = "COMPLETED" /\ p_ret = PyTrue)

\* C9: the steps are invoked in the stated order, each at most once, and a
\* step is invoked only after every earlier step was invoked and returned True.
C9_FixedOrder ==
    /\ Len(p_invoked) <= Len(StatedOrder)
    /\ \A i \in DOMAIN p_invoked : p_invoked[i] = StatedOrder[i]
    /\ Len(p_results) \in {Len(p_invoked) - 1, Len(p_invoked)}
    /\ \A i \in DOMAIN p_invoked : \A j \in 1..(i - 1) : p_results[j] = PyTrue

-----------------------------------------------------------------------------
\* Properties of the reversal and of the splicer

\* t holds the waypoints of s in the opposite order
IsReversalOf(t, s) ==
    /\ Len(t) = Len(s)
    /\ \A i \in 1..Len(s) : t[i] = s[Len(s) + 1 - i]

Plays == SelectSeq(sp_calls, LAMBDA c : c.op = "run_traj")
FirstPlay == CHOOSE i \in DOMAIN sp_calls :
                 /\ sp_calls[i].op = "run_traj"
                 /\ \A j \in 1..(i - 1) : sp_calls[j].op # "run_traj"

\* C19: the maneuver plays reversed segment 2, then reversed segment 1, then
\* the static trajectory, and nothing else; each is played only after the one
\* before it answered with code 200; the first is played only after both
\* segments were reversed (segment 1 first) and the grippers were closed.
C19_PlaybackOrder ==
    /\ Len(Plays) <= 3
    /\ Len(Plays) >= 1 =>
          /\ Plays[1].name = "tmp_dual_arm_traj_2_reversed.json"
          /\ \E i \in 1..FirstPlay : \E j \in 1..FirstPlay : \E g \in 1..FirstPlay :
                /\ i < j /\ j < g
                /\ sp_calls[i] = ReverseCall("tmp_dual_arm_traj_1.json",
                                              "tmp_dual_arm_traj_1_reversed.json")
                /\ sp_calls[j] = ReverseCall("tmp_dual_arm_traj_2.json",
                                              "tmp_dual_arm_traj_2_reversed.json")
                /\ sp_calls[g] = GripperCall
    /\ Len(Plays) >= 2 =>
          /\ Plays[2].name = "tmp_dual_arm_traj_1_reversed.json"
          /\ Plays[1].resp = RunDict(CodeSuccess)
    /\ Len(Plays) >= 3 =>
          /\ Plays[3].name = IF sp_task = "pick_front_crack"
                                THEN "demo2/pick_front_crack/dual_arm_pick_to_body.json"
                                ELSE "demo2/pick_crack_remote/3_dual_arm_move_to_body.json"
          /\ Plays[2].resp = RunDict(CodeSuccess)
    /\ sp_ret = PyTrue => (Len(Plays) = 3 /\ Plays[3].resp = RunDict(CodeSuccess))

C19_Witness ==
    /\ sp_pc = "done"
    /\ sp_ret = PyTrue
    /\ Len(Plays) = 3
    /\ Plays[1].name = "tmp_dual_arm_traj_2_reversed.json"
    /\ Plays[2].name = "tmp_dual_arm_traj_1_reversed.json"

\* C20: a segment plan with more waypoints than the maneuver's waypoint limit
\* is rejected: it is never copied to a segment file, never reversed into a
\* reversed file, and no reversed file that is played holds more waypoints
\* than the limit.
C20_SegmentsChecked ==
    /\ \A i \in DOMAIN sp_calls :
          (sp_calls[i].op = "cp" /\ sp_calls[i].dst \in {SegmentFile(1), SegmentFile(2)})
              => Len(sp_calls[i].points) <= sp_limit
    /\ \A k \in 1..2 :
          /\ Len(sp_files[SegmentFile(k)].points) <= sp_limit
          /\ Len(sp_files[ReversedFile(k)].points) <= sp_limit

\* The call a maneuver issued last
LastCall == sp_calls[Len(sp_calls)]

\* A planning answer that is no plan: False, or a dict whose code is not 200
PlanFailed(r) == r.kind = "False" \/ IsFailure(r)

\* C21: a failed planning call of a dynamic segment is followed by nothing but
\* another planning call of the same segment, and when it is the last call the
\* maneuver is planning again or has returned False; a safe_move_j that gave
\* None or False is the last call and the maneuver has returned False.  So no
\* reversed segment, grip or static trajectory follows a failure.
C21_SplicerFailureAborts ==
    /\ \A i \in DOMAIN sp_calls :
          (sp_calls[i].op = "fast_move_j_to_dual_arm" /\ PlanFailed(sp_calls[i].resp))
              => IF i < Len(sp_calls)
                 THEN /\ sp_calls[i + 1].op = "fast_move_j_to_dual_arm"
                      /\ sp_calls[i + 1].seg = sp_calls[i].seg
                 ELSE \/ sp_pc = "plan"
                      \/ sp_pc = "done" /\ sp_ret = PyFalse
    /\ \A i \in DOMAIN sp_calls :
          (sp_calls[i].op = "safe_move_j" /\ sp_calls[i].resp \in {PyNone, PyFalse})
              => /\ i = Len(sp_calls)
                 /\ sp_pc = "done"
                 /\ sp_ret = PyFalse

\* The safe_move_j calls of the maneuver, and where a kind of call occurs
Moves == SelectSeq(sp_calls, LAMBDA c : c.op = "safe_move_j")
CallIdx(op) == {i \in DOMAIN sp_calls : sp_calls[i].op = op}

\* C22: the maneuver moves at most once, through safe_move_j, to the first
\* waypoint of reversed segment 2 (the last waypoint of the plan of segment
\* 2); the grippers are closed only after that move returned a plan with code
\* 200, and every run_traj comes after the gripper command.
C22_MoveThenGripThenPlay ==
    /\ Len(Moves) <= 1
    /\ \A m \in CallIdx("safe_move_j") :
          /\ sp_files[ReversedFile(2)].exists
          /\ sp_files[ReversedFile(2)].points # <<>>
          /\ sp_calls[m].target = sp_files[ReversedFile(2)].points[1]
          /\ sp_calls[m].target =
                sp_files[SegmentFile(2)].points[Len(sp_files[SegmentFile(2)].points)]
    /\ \A g \in CallIdx("gripper") :
          \E m \in CallIdx("safe_move_j") :
             /\ m < g
             /\ sp_calls[m].resp.kind = "dict"
             /\ sp_calls[m].resp.code = CodeSuccess
    /\ \A p \in CallIdx("run_traj") : \E g \in CallIdx("gripper") : g < p

C22_Witness ==
    /\ sp_pc = "done"
    /\ sp_ret = PyTrue
    /\ Len(Moves) = 1
    /\ Moves[1].target = "B"
    /\ sp_files[ReversedFile(1)].points = <<"A", "B", "A">>
    /\ sp_files[ReversedFile(2)].points = <<"B", "A">>
    /\ CallIdx("gripper") # {}
    /\ Len(Plays) = 3

-----------------------------------------------------------------------------
\* Properties of the subtask data

\* C23: once a subtask has computed its applied shift, that shift is the
\* configured base_shift plus the offset on x and y, and the base_shift alone
\* on z: offset [2, -1, 30] with base shift [10, 0, 0] gives [12, -1, 0].
C23_AppliedShiftMasksZ ==
    c_pc \in {"applied", "closed"} =>
        /\ c_applied[1] = c_given["base_shift"][1] + c_offset[1]
        /\ c_applied[2] = c_given["base_shift"][2] + c_offset[2]
        /\ c_applied[3] = c_given["base_shift"][3]
        /\ (c_offset = <<2, -1, 30>> /\ c_given["base_shift"] = <<10, 0, 0>>)
              => c_applied = <<12, -1, 0>>

C23_Witness ==
    /\ c_pc = "applied"
    /\ c_task = "setup_front_crack"
    /\ c_offset = <<2, -1, 30>>
    /\ c_given["base_shift"] = <<10, 0, 0>>
    /\ c_applied = <<12, -1, 0>>

-----------------------------------------------------------------------------
\* Properties of the failure paths

\* C24: when the HTTP request of a run_traj call made by the validator raised
\* a transport exception, run_traj gave the validator a failure value and the
\* validator has taken its failure branch: it has returned False.
C24_TransportFailureIsFailure ==
    \A i \in DOMAIN v_calls :
        (v_calls[i].op = "run_traj" /\ v_calls[i].resp.kind = "raise")
            => /\ v_pc = "done"
               /\ v_ret = PyFalse


\* The subtask that is running, or that ran last
CurrentTask == p_invoked[Len(p_invoked)]

\* The running subtask has returned False to the orchestrator, which aborted
ReturnedFalse ==
    /\ p_pc = "ABORTED"
    /\ Len(p_results) = Len(p_invoked)
    /\ p_results[Len(p_results)] = PyFalse
    /\ p_ret = PyFalse

\* C25: in push_front_crack and pull_out_crack, a validator call that gave
\* False (failed run_traj) or None (exhaustion) is the last operation of the
\* subtask, and the subtask has returned False to the orchestrator, which
\* aborted; every result the orchestrator has seen is True or False.
C25_ValidatorFailureReturnsFalse ==
    /\ \A k \in DOMAIN p_results : p_results[k] \in {PyTrue, PyFalse}
    /\ \A i \in DOMAIN s_ops :
          (/\ CurrentTask \in {"push_front_crack", "pull_out_crack"}
           /\ s_ops[i].op = "safe_fast_move_j_to"
           /\ s_ops[i].res \in {PyFalse, PyNone})
              => (i = Len(s_ops) /\ ReturnedFalse)

\* An operation answered with a failure: None or a code other than 200 from
\* run_traj, False or a code other than 200 from force_comp, False from
\* contact, gripper and move_j_to_traj_start
OpFailed(c) ==
    \/ c.op = "run_traj" /\ IsFailure(c.res)
    \/ c.op = "force_comp" /\ (c.res = PyFalse \/ IsFailure(c.res))
    \/ c.op \in {"contact", "gripper", "move_j_to_traj_start"} /\ c.res = PyFalse

\* C26: an operation of a subtask that answered with a failure is the last
\* operation the subtask issued, and the subtask has returned False.
C26_UniformFailureMapping ==
    \A i \in DOMAIN s_ops :
        OpFailed(s_ops[i]) => (i = Len(s_ops) /\ ReturnedFalse)

\* The operations that send a request to the Motion Service
RemoteOps ==
    {"run_traj", "gripper", "force_comp", "contact", "move_j_to_traj_start",
     "safe_get_tf_shift", "safe_fast_move_j_to", "safe_move_j",
     "safe_plan_fast_move_j_to_dual_arm"}

\* C27: when crack_config lacks a field, the subtask meets the missing field
\* before it has issued any remote operation, and safe_get_tf_shift is not
\* started on a configuration without runtime_shift_limits (it would build
\* frames and ask for offsets before it reads the limits).
C27_MalformedConfigFailsFast ==
    /\ \A i \in DOMAIN s_ops :
          s_ops[i].op = "KeyError"
              => \A j \in 1..(i - 1) : s_ops[j].op \notin RemoteOps
    /\ \A i \in DOMAIN s_ops :
          (s_ops[i].op = "safe_get_tf_shift" /\ s_ops[i].arg = "crack_config")
              => p_missing # "runtime_shift_limits"

\* C28: a relocation that reported failure is the last step invoked, and the
\* pipeline is ABORTED and has returned False.
C28_RelocationFailureAborts ==
    \A k \in DOMAIN p_results :
        (IsRelocation(p_invoked[k]) /\ p_results[k] = PyFalse)
            => /\ Len(p_invoked) = k
               /\ p_pc = "ABORTED"
               /\ p_ret = PyFalse


\* C29: a planning request of safe_move_j is answered by the Motion Service
\* only for a target of 16 joint values (torso 2, left arm 7, right arm 7);
\* any other target is rejected before a request is sent.
C29_JointVectorChecked ==
    \A i \in DOMAIN v_calls :
        (v_fn = "safe_move_j" /\ v_calls[i].op = "plan" /\ v_calls[i].resp.kind = "dict")
            => v_target = 2 + 7 + 7

\* C30: the configuration a subtask was given holds the same values at every
\* point of the subtask; the command that closes the grippers carries the
\* configured keyword arguments with the positions set to 0.
C30_ConfigUnchanged ==
    /\ c_config = c_given
    /\ c_pc = "closed" =>
          /\ DOMAIN c_sent = DOMAIN c_given["grasp_gripper_config"]
          /\ \A k \in DOMAIN c_sent :
                c_sent[k] = IF k \in {"left_position", "right_position"} THEN 0
                            ELSE c_given["grasp_gripper_config"][k]

C30_Witness ==
    /\ c_pc = "closed"
    /\ c_given["grasp_gripper_config"] = [right_position |-> 80, right_force |-> 25]
    /\ c_sent = [right_position |-> 0, right_force |-> 25]
    /\ c_config["grasp_gripper_config"] = [right_position |-> 80, right_force |-> 25]


-----------------------------------------------------------------------------
\* Properties of the planning calls

\* The components that plan: a run of either validator or a run of the
\* dual-arm planner inside a pick maneuver
InitSpecPlanners == InitSpecValidator \/ InitSpecSplicer
NextPlanners == NextValidator \/ NextSplicer
SpecPlanners == InitSpecPlanners /\ [][NextPlanners]_vars

\* The calls of a log that ask the planner for a plan
PlanningOps == {"plan", "fast_move_j_to_dual_arm"}

\* C31: every planning call made by the validator (safe_fast_move_j_to,
\* safe_move_j) and by safe_plan_fast_move_j_to_dual_arm carries execute=False,
\* so in the validator the only calls that are not plan-only are run_traj
\* calls, and the dual-arm planner loop itself issues no moving call at all
\* (between its planning calls of one segment there is nothing else).
C31_PlanOnlyCalls ==
    /\ \A i \in DOMAIN v_calls :
          \/ v_calls[i].op = "plan" /\ v_calls[i].execute = FALSE
          \/ v_calls[i].op = "run_traj"
    /\ \A i \in DOMAIN sp_calls :
          sp_calls[i].op \in PlanningOps => sp_calls[i].execute = FALSE
    /\ \A i \in DOMAIN sp_calls : \A j \in DOMAIN sp_calls :
          (/\ i < j
           /\ sp_calls[i].op \in PlanningOps /\ sp_calls[j].op \in PlanningOps
           /\ sp_calls[i].seg = sp_calls[j].seg)
          => \A k \in i..j : sp_calls[k].op \in PlanningOps

\* A validator run that planned twice and then executed the second plan
C31_Witness ==
    /\ v_pc = "done"
    /\ Cardinality(PlanIdx) >= 2
    /\ RunIdx # {}


-----------------------------------------------------------------------------
\* Properties of the client operations

\* The caller sees a success: True, or a response dict with code 200
Succeeded(ret) == ret = PyTrue \/ (ret.kind = "dict" /\ ret.code = CodeSuccess)

\* C32: every client operation the core consumes recognises code 200 as
\* success: when the Motion Service answers an operation with code 200 (and,
\* for the grippers, overall_success), the value the operation returns reports
\* a success; in particular gripper() returns True for such a response.
C32_SharedSuccessSentinel ==
    (/\ cl_pc = "returned"
     /\ cl_response.transport = "ok"
     /\ cl_response.code = CodeSuccess
     /\ cl_response.overall_success)
    => Succeeded(cl_ret)


\* C33: the validator executes the plan it inspected.  Every run_traj call
\* directly follows the planning call of the same attempt (no planning call
\* in between), that plan had code 200 and at most traj_point_limit waypoints,
\* the traj id given to run_traj is the id of that plan (the first element
\* when traj_id came as a list), and a validator that returns a plan response
\* returns exactly that plan, with code 200.
C33_ExecutesInspectedPlan ==
    /\ \A i \in RunIdx :
          /\ i > 1
          /\ v_calls[i - 1].op = "plan"
          /\ v_calls[i - 1].resp.kind = "dict"
          /\ v_calls[i - 1].resp.code = CodeSuccess
          /\ ~OverLimit(v_calls[i - 1].resp.npoints, v_limit)
          /\ v_calls[i].id = v_calls[i - 1].id
          /\ i = Len(v_calls)
    /\ (v_pc = "done" /\ v_ret.kind = "dict") =>
          /\ RunIdx # {}
          /\ v_ret = v_calls[Len(v_calls) - 1].resp
          /\ v_ret.code = CodeSuccess
          /\ ~IsFailure(v_calls[Len(v_calls)].resp)

\* A run of safe_move_j whose second plan, with traj_id as a list, was
\* accepted, executed and returned
C33_Witness ==
    /\ v_pc = "done"
    /\ v_fn = "safe_move_j"
    /\ v_ret.kind = "dict"
    /\ v_ret.aslist
    /\ Cardinality(PlanIdx) >= 2


-----------------------------------------------------------------------------
\* Properties of the estimator's frames

FrameBuilds == {i \in DOMAIN e_calls : e_calls[i].op = "create_frame"}
ReferenceBuilds == {i \in FrameBuilds : e_calls[i].frame = "tf_name"}

\* C34: the only frames the estimator creates are tf_name + "_runtime" (in the
\* attempts) and, when build_origin_tf is True, tf_name; every comparison has
\* the runtime frame as its target and tf_name as its reference, and follows a
\* build of the runtime frame in the same attempt.  With build_origin_tf False
\* the reference frame is never created; with True it is created exactly once
\* (once the estimator has started), before every runtime build.
C34_FrameEffect ==
    /\ \A i \in FrameBuilds : e_calls[i].frame \in {"tf_name", "tf_name_runtime"}
    /\ \A i \in OffsetIdx :
          /\ e_calls[i].target = "tf_name_runtime"
          /\ e_calls[i].ref = "tf_name"
          /\ i > 1
          /\ e_calls[i - 1] = FrameCall("tf_name_runtime", TRUE)
    /\ ~e_build => ReferenceBuilds = {}
    /\ (e_build /\ e_pc # "start") =>
          /\ Cardinality(ReferenceBuilds) = 1
          /\ \A i \in ReferenceBuilds : \A j \in RuntimeBuilds : i < j
          /\ \A i \in ReferenceBuilds : \A j \in OffsetIdx : i < j

\* An estimator that was told not to build the reference frame and has made
\* two attempts, one of them compared
C34_Witness ==
    /\ ~e_build
    /\ e_pc \in {"done", "raised"}
    /\ Cardinality(RuntimeBuilds) >= 2
    /\ OffsetIdx # {}


-----------------------------------------------------------------------------
\* Properties of the composition of the dynamic segments

PickTasks == {"pick_crack_from_another_table", "pick_front_crack"}
PlanCalls == {i \in DOMAIN sp_calls : sp_calls[i].op = "fast_move_j_to_dual_arm"}

\* The file that holds the forward plan of segment 1
ForwardFile1 == IF sp_task \in PickTasks THEN SegmentFile(1) ELSE SetupFile(1)

PlannedBefore(k, i) ==
    \E j \in PlanCalls :
        /\ j < i
        /\ sp_calls[j].seg = k
        /\ sp_calls[j].resp.kind = "dict"
        /\ sp_calls[j].resp.code = CodeSuccess

\* C36: no run_traj and no safe_move_j is issued by a maneuver before a plan
\* with code 200 was returned for segment 1 and for segment 2.  In
\* setup_front_crack the first trajectory played is segment 1 and the second,
\* played only after the first answered with code 200, is segment 2; the
\* grippers are commanded only after both answered with code 200.
C36_PlanBothBeforeExecuting ==
    /\ \A i \in DOMAIN sp_calls :
          sp_calls[i].op \in {"run_traj", "safe_move_j"}
              => PlannedBefore(1, i) /\ PlannedBefore(2, i)
    /\ sp_task = "setup_front_crack" =>
          /\ Len(Plays) >= 1 => Plays[1].name = "tmp_dual_arm_setup_front_crack_traj_1.json"
          /\ Len(Plays) >= 2 =>
                /\ Plays[2].name = "tmp_dual_arm_setup_front_crack_traj_2.json"
                /\ Plays[1].resp = RunDict(CodeSuccess)
          /\ \A g \in CallIdx("gripper") :
                /\ Len(Plays) >= 2
                /\ Plays[2].resp = RunDict(CodeSuccess)
                /\ \E a \in CallIdx("run_traj") : \E b \in CallIdx("run_traj") :
                      a < b /\ b < g

\* setup_front_crack ran to its `return True`
C36_Witness ==
    /\ sp_task = "setup_front_crack"
    /\ sp_pc = "done"
    /\ sp_ret = PyTrue
    /\ Len(Plays) = 4
    /\ Cardinality(CallIdx("gripper")) = 2


-----------------------------------------------------------------------------
\* Properties of the order of operations inside a subtask

\* The subtask s_ops belongs to: the one invoked last
Subtasks == {k \in DOMAIN p_invoked : ~IsRelocation(p_invoked[k])}
OpsTask == p_invoked[CHOOSE k \in Subtasks : \A j \in Subtasks : j <= k]

\* The subtask s_ops belongs to has returned the value ret
SubtaskGave(ret) ==
    LET k == CHOOSE k \in Subtasks : \A j \in Subtasks : j <= k IN
    /\ Len(p_results) >= k
    /\ p_results[k] = ret

RunOps(ops) == SelectSeq(ops, LAMBDA o : o.op = "run_traj")
IsPrefix(s, t) == Len(s) <= Len(t) /\ \A i \in DOMAIN s : s[i] = t[i]

\* The trajectories of put_crack_on_another_table, as the source writes them
PutTrajectories(origin_crack) ==
    IF origin_crack
    THEN << "demo2/put_back_crack/1_raise_up.json",
            "demo2/put_back_crack/2_move_forward.json",
            "demo2/put_back_crack/3_put_down_origin_crack.json",
            "demo2/put_back_crack/4_release_hands_origin_crack.json",
            "demo2/put_back_crack/5_widthdraw_hands.json" >>
    ELSE << "demo2/put_back_crack/1_raise_up.json",
            "demo2/put_back_crack/2_move_forward.json",
            "demo2/put_back_crack/3_put_down.json",
            "demo2/put_back_crack/4_release_hands.json",
            "demo2/put_back_crack/5_widthdraw_hands.json" >>

\* C37: the trajectories a subtask has run are the first ones of its source,
\* in their written order; a run_traj that gave None or a code other than 200
\* is the last operation of the subtask, which has returned False.  In
\* put_crack_on_another_table the gripper release comes after trajectories 1,
\* 2 and 3 answered with code 200, trajectories 3 and 4 are both of the
\* origin_crack variant or both of the plain one, and True is returned only
\* after all five trajectories answered with code 200.
C37_TrajectoriesInOrder ==
    Subtasks # {} =>
      LET script == Script(OpsTask, p_origin)
          ran == RunOps(s_ops)
      IN
      /\ IsPrefix([i \in DOMAIN ran |-> ran[i].arg],
                  [i \in DOMAIN RunOps(script) |-> RunOps(script)[i].arg])
      /\ \A i \in DOMAIN s_ops :
            (s_ops[i].op = "run_traj" /\ IsFailure(s_ops[i].res))
               => /\ i = Len(s_ops)
                  /\ SubtaskGave(PyFalse)
                  /\ p_pc = "ABORTED"
      /\ OpsTask = "put_crack_on_another_table" =>
            /\ IsPrefix([i \in DOMAIN ran |-> ran[i].arg],
                        PutTrajectories(p_origin["pick_crack"]))
            /\ \A g \in DOMAIN s_ops :
                  s_ops[g].op = "gripper" =>
                     /\ g = 4
                     /\ \A i \in 1..3 : s_ops[i] =
                           [op |-> "run_traj",
                            arg |-> PutTrajectories(p_origin["pick_crack"])[i],
                            res |-> RunDict(CodeSuccess)]
            /\ SubtaskGave(PyTrue) =>
                  /\ Len(ran) = 5
                  /\ \A i \in 1..5 : ran[i].res = RunDict(CodeSuccess)

\* put_crack_on_another_table released an original rack and returned False
\* because trajectory 4 failed
C37_Witness ==
    /\ Subtasks # {}
    /\ OpsTask = "put_crack_on_another_table"
    /\ p_origin["pick_crack"]
    /\ Len(s_ops) = 5
    /\ s_ops[4].op = "gripper"
    /\ s_ops[5].arg = "demo2/put_back_crack/4_release_hands_origin_crack.json"
    /\ s_ops[5].res = PyNone
    /\ p_pc = "ABORTED"


\* Where the running subtask issued an operation of a kind with an argument
OpIdx(kind, arg) ==
    {i \in DOMAIN s_ops : s_ops[i].op = kind /\ s_ops[i].arg = arg}

\* C38: in pull_out_crack the pull distance shift is the x offset of the rack
\* minus the x offset of the column machine; force_comp is issued only after
\* a test that found |shift| <= 0.1 (100 mm), and a test that found
\* |shift| > 0.1 is the last operation of the subtask, which has returned
\* False: after the grippers were closed on the rack and the rack was lifted
\* (z+0.003), and with no gripper release or withdrawal issued after it.
C38_PullDistanceGuard ==
    (Subtasks # {} /\ OpsTask = "pull_out_crack") =>
      /\ \A i \in DOMAIN s_ops :
            s_ops[i].op = "pull_distance_check" =>
               LET shift == s_ops[i].res.crack_x - s_ops[i].res.base_x IN
               /\ (s_ops[i].res.kind = "True") = (Abs(shift) > 100)
               /\ PullDistanceShift(s_ops[i].res.base_x, s_ops[i].res.crack_x) = shift
               /\ Abs(shift) > 100 =>
                     /\ i = Len(s_ops)
                     /\ SubtaskGave(PyFalse)
                     /\ p_pc = "ABORTED"
                     /\ \E g \in OpIdx("gripper", "grasp_gripper_config closed") :
                        \E l \in OpIdx("safe_fast_move_j_to", "z+0.003") :
                           /\ g < l /\ l < i
                           /\ s_ops[l].res = RunDict(CodeSuccess)
                     /\ OpIdx("gripper", "open 0.06") = {}
      /\ \A f \in DOMAIN s_ops :
            s_ops[f].op = "force_comp" =>
               \E i \in 1..(f - 1) :
                  /\ s_ops[i].op = "pull_distance_check"
                  /\ Abs(s_ops[i].res.crack_x - s_ops[i].res.base_x) <= 100

\* pull_out_crack returned False at the guard: the rack stood 101 mm nearer
\* than the column machine's offset says
C38_Witness ==
    /\ Subtasks # {}
    /\ OpsTask = "pull_out_crack"
    /\ p_pc = "ABORTED"
    /\ s_ops[Len(s_ops)].op = "pull_distance_check"
    /\ s_ops[Len(s_ops)].res.base_x = 101
    /\ s_ops[Len(s_ops)].res.crack_x = 0


-----------------------------------------------------------------------------
\* Properties shared by the two validators

\* C39: safe_fast_move_j_to and safe_move_j are the same state machine: with
\* the same plan in hand (same response, same waypoint count, same limit) both
\* take the same step (reject and plan again, or execute), so for the same
\* answers they issue the same calls and return the same class of outcome.
C39_SameStateMachine ==
    v_pc = "inspect" =>
        AfterInspect("safe_fast_move_j_to", v_result, v_limit)
            = AfterInspect("safe_move_j", v_result, v_limit)


-----------------------------------------------------------------------------
\* Termination

\* An operation of the running subtask did not return: it raised
OperationRaised == \E i \in DOMAIN s_ops : s_ops[i].res.kind = "raise"

\* C40: whatever the Motion Service answers, as long as every operation
\* returns, the pipeline invokes no step twice and ends COMPLETED or ABORTED
\* (the validator, the planner loop and the estimator inside it having ended
\* within their retry budgets).
C40_Termination ==
    /\ [](\A i \in DOMAIN p_invoked : \A j \in DOMAIN p_invoked :
             p_invoked[i] = p_invoked[j] => i = j)
    /\ <>(p_pc \in {"COMPLETED", "ABORTED"} \/ OperationRaised)

=============================================================================
